---- MODULE Spec2Model ----
(***************************************************************************)
(* PerigeeWatch: the SGP4 propagation worker (propagation.worker.ts), the  *)
(* conjunction risk ladder and the conjunction fetch (services), the       *)
(* element parser (parseTLE), the visibility calculator and the component  *)
(* that loads its intervals, the application's conjunction and pass polls  *)
(* (App.tsx), the watchlist hook (useWatchlist), the useWorkerPositions    *)
(* hook and PositionWebSocket.                                             *)
(*                                                                         *)
(* Units: velocities are integers in m/s (0.05 km/s = 50), altitudes in    *)
(* km, angles in degrees-equivalents (k stands for k*pi/180 rad),          *)
(* distances in hundredths of a km.  A JavaScript number is a record       *)
(* [t, v]: finite v, NaN, or +/-Infinity; null is its own record.          *)
(***************************************************************************)
EXTENDS Integers, Sequences, FiniteSets, TLC

VARIABLES
    inbox,       \* messages posted to the worker and not yet handled (FIFO)
    sent,        \* number of messages posted to the worker so far
    satellites,  \* worker.ts:39  let satellites: SatRecord[]
    outbox,      \* messages posted by the handler that ran last, in order
    lastRun,     \* history: the message handled last, the tracked set before
                 \* it and what the satellite.js calls returned during it
    hist         \* history: the ids of the 'propagate' messages posted and
                 \* handled, of the snapshots posted, the last init handled and
                 \* the objects of the last tick's snapshot

workerVars == <<inbox, sent, satellites, outbox, lastRun, hist>>

VARIABLES
    risk,        \* the distances handed to getRiskLevel last and before, with
                 \* the levels it returned
    conj         \* one conjunction poll: the states the server screens, the
                 \* threshold asked for, how the request ended, the events
                 \* returned

VARIABLES
    tleParse,    \* the element set handed to parseTLE last and the elements
                 \* it returned
    access,      \* one load of the access intervals: the trajectory the
                 \* server samples, how the request ended, the intervals
    app,         \* the application's conjunction polls: the polls issued and
                 \* not yet answered, the list and the notifications held
    watch,       \* the watchlist hook: its state, the updaters queued, the value
                 \* stored under 'perigee-watchlist'; history: the set loaded at mount
                 \* and the toggleWatchlist calls per id since
    hook,        \* the useWorkerPositions hook: its state, its worker, the messages
                 \* on their way between the two; history: the messages posted to
                 \* the worker and the maneuver events received
    passPoll,    \* the pass polls of the application: the system time in minutes,
                 \* the keys notified, the notifications; history: the polls made
                 \* and the notifications raised with their time to AOS
    pws          \* a PositionWebSocket instance: its fields and the sockets it has
                 \* created; history: the calls since the last disconnect(), the
                 \* event handled last, the onPosition calls of the last push

vars == <<inbox, sent, satellites, outbox, lastRun, hist, risk, conj, tleParse, access, app, watch, hook, passPoll, pws>>

\* what the actions of one component leave alone
exceptWorker == <<risk, conj, tleParse, access, app, watch, hook, passPoll, pws>>

exceptRisk == <<inbox, sent, satellites, outbox, lastRun, hist, conj, tleParse, access, app, watch, hook, passPoll, pws>>

exceptConj == <<inbox, sent, satellites, outbox, lastRun, hist, risk, tleParse, access, app, watch, hook, passPoll, pws>>

exceptTle == <<inbox, sent, satellites, outbox, lastRun, hist, risk, conj, access, app, watch, hook, passPoll, pws>>

exceptAccess == <<inbox, sent, satellites, outbox, lastRun, hist, risk, conj, tleParse, app, watch, hook, passPoll, pws>>

exceptApp == <<inbox, sent, satellites, outbox, lastRun, hist, risk, conj, tleParse, access, watch, hook, passPoll, pws>>

exceptWatch == <<inbox, sent, satellites, outbox, lastRun, hist, risk, conj, tleParse, access, app, hook, passPoll, pws>>

exceptHook == <<inbox, sent, satellites, outbox, lastRun, hist, risk, conj, tleParse, access, app, watch, passPoll, pws>>

exceptPasses == <<inbox, sent, satellites, outbox, lastRun, hist, risk, conj, tleParse, access, app, watch, hook, pws>>

exceptSocket == <<inbox, sent, satellites, outbox, lastRun, hist, risk, conj, tleParse, access, app, watch, hook, passPoll>>

----------------------------------------------------------------------------
(* Bounds *)

MaxMsgs == 4
MaxInbox == 2

----------------------------------------------------------------------------
(* JavaScript numbers *)

NaN == [t |-> "nan", v |-> 0]
PInf == [t |-> "inf", v |-> 1]
NInf == [t |-> "inf", v |-> -1]
NULL == [t |-> "null", v |-> 0]
Fin(n) == [t |-> "fin", v |-> n]

isNaN(x) == x.t = "nan"

IsFinite(x) == x.t = "fin"

\* x < y as JavaScript evaluates it: false when either side is NaN
Lt(x, y) ==
    /\ ~isNaN(x)
    /\ ~isNaN(y)
    /\ \/ x.t = "fin" /\ y.t = "fin" /\ x.v < y.v
       \/ x = NInf /\ y # NInf
       \/ y = PInf /\ x # PInf

Gt(x, y) == Lt(y, x)

Neg(x) == IF x.t = "nan" THEN NaN ELSE [t |-> x.t, v |-> 0 - x.v]

Add(x, y) ==
    IF isNaN(x) \/ isNaN(y) THEN NaN
    ELSE IF x.t = "inf" /\ y.t = "inf" THEN (IF x.v = y.v THEN x ELSE NaN)
    ELSE IF x.t = "inf" THEN x
    ELSE IF y.t = "inf" THEN y
    ELSE Fin(x.v + y.v)

Sub(x, y) == Add(x, Neg(y))

Sign(n) == IF n < 0 THEN -1 ELSE 1

Mul(x, y) ==
    IF isNaN(x) \/ isNaN(y) THEN NaN
    ELSE IF x.t = "fin" /\ y.t = "fin" THEN Fin(x.v * y.v)
    ELSE IF x = Fin(0) \/ y = Fin(0) THEN NaN
    ELSE [t |-> "inf", v |-> Sign(x.v) * Sign(y.v)]

MathAbs(x) == IF x.t = "nan" THEN NaN ELSE [t |-> x.t, v |-> IF x.v < 0 THEN 0 - x.v ELSE x.v]

RECURSIVE Bisect(_, _, _)
\* the largest r in lo..hi with r*r <= n
Bisect(n, lo, hi) ==
    IF lo >= hi THEN lo
    ELSE LET mid == (lo + hi + 1) \div 2
         IN IF mid * mid <= n THEN Bisect(n, mid, hi) ELSE Bisect(n, lo, mid - 1)

\* Math.sqrt; the model only feeds it perfect squares
MathSqrt(x) ==
    IF isNaN(x) \/ x = NInf THEN NaN
    ELSE IF x = PInf THEN PInf
    ELSE IF x.v < 0 THEN NaN
    ELSE Fin(Bisect(x.v, 0, 20000))

----------------------------------------------------------------------------
(* Program constants *)

ManeuverThreshold == 50

MaxAltitude == 100000

----------------------------------------------------------------------------
(* Inputs of the worker *)

\* TLEInput records.  twoline2satrec accepts E1 and E2 and throws on E3;
\* E2 carries no object_type.
E1 == [norad_id |-> 1, name |-> "SAT1", object_type |-> "PAYLOAD", rejected |-> FALSE]
E2 == [norad_id |-> 2, name |-> "SAT2", object_type |-> "", rejected |-> FALSE]
E3 == [norad_id |-> 3, name |-> "SAT3", object_type |-> "DEBRIS", rejected |-> TRUE]

\* the `tles` arrays an 'init' message may carry
InitPayloads == { <<E1>>, <<E2, E3, E1>> }

\* velocity vectors (m/s) a propagation may return: magnitudes 0, 7500,
\* 7530, 7550 (a 3-4-5 triple), 7560 and NaN
VelocityVectors ==
    { <<Fin(0), Fin(0), Fin(0)>>,
      <<Fin(7500), Fin(0), Fin(0)>>,
      <<Fin(0), Fin(-7530), Fin(0)>>,
      <<Fin(4530), Fin(6040), Fin(0)>>,
      <<Fin(0), Fin(0), Fin(7560)>>,
      <<NaN, Fin(0), Fin(0)>> }

Geo(lat, lon, h) == [latitude |-> lat, longitude |-> lon, height |-> h]

\* the geodetic result of an ordinary low orbit
GeodeticNominal == Geo(Fin(45), Fin(10), Fin(400))

\* geodetic results at the edges of the valid ranges, and results that are
\* out of range, NaN or infinite in one field
GeodeticEdge ==
    { Geo(Fin(-90), Fin(180), Fin(100000)),
      Geo(Fin(90), Fin(-180), Fin(0)),
      Geo(Fin(45), Fin(10), Fin(-1)),
      Geo(Fin(45), Fin(10), Fin(100001)),
      Geo(Fin(45), Fin(10), NaN),
      Geo(Fin(45), Fin(10), PInf),
      Geo(Fin(45), Fin(10), NInf),
      Geo(NaN, Fin(10), Fin(400)),
      Geo(Fin(45), NaN, Fin(400)),
      Geo(PInf, Fin(10), Fin(400)),
      Geo(Fin(45), NInf, Fin(400)) }

NoVector == <<NaN, NaN, NaN>>

Outcome(p, vel, geo) == [prop |-> p, velocity |-> vel, geodetic |-> geo]

\* what propagate() and eciToGeodetic() do for one satellite in one tick:
\* propagate throws, returns no position, returns no velocity, or returns
\* a position/velocity pair whose position converts to `geodetic`
Outcomes ==
    { Outcome(p, NoVector, Geo(NaN, NaN, NaN)) : p \in {"throws", "noPosition", "noVelocity"} }
    \cup { Outcome("ok", vel, GeodeticNominal) : vel \in VelocityVectors }
    \cup { Outcome("ok", <<Fin(0), Fin(0), Fin(7560)>>, geo) : geo \in GeodeticEdge }

\* SAT1 is propagated with every outcome; the other objects with two of
\* them (a failure and a valid state)
CalmOutcomes ==
    { Outcome("throws", NoVector, Geo(NaN, NaN, NaN)),
      Outcome("ok", <<Fin(7500), Fin(0), Fin(0)>>, GeodeticNominal) }

OutcomesOf(sat) == IF sat.norad_id = 1 THEN Outcomes ELSE CalmOutcomes

RECURSIVE OraclesFor(_)
\* the outcomes of one tick: one per tracked satellite
OraclesFor(sats) ==
    IF sats = <<>> THEN {<<>>}
    ELSE { <<o>> \o rest : o \in OutcomesOf(Head(sats)), rest \in OraclesFor(Tail(sats)) }

----------------------------------------------------------------------------
(* satellite.js conversions used by the worker *)

\* degreesLat: RangeError outside [-pi/2, pi/2], else radians * 180 / pi
degreesLat(radians) ==
    IF Lt(radians, Fin(-90)) \/ Gt(radians, Fin(90))
    THEN [throws |-> TRUE, value |-> NaN]
    ELSE [throws |-> FALSE, value |-> radians]

\* degreesLong: RangeError outside [-pi, pi], else radians * 180 / pi
degreesLong(radians) ==
    IF Lt(radians, Fin(-180)) \/ Gt(radians, Fin(180))
    THEN [throws |-> TRUE, value |-> NaN]
    ELSE [throws |-> FALSE, value |-> radians]

----------------------------------------------------------------------------
(* initTLEs *)

NewSatRecord_zeroBaseline(tle, gen) ==
    [norad_id |-> tle.norad_id,
     name |-> tle.name,
     object_type |-> IF tle.object_type = "" THEN "UNKNOWN" ELSE tle.object_type,
     prevVelocity |-> Fin(0),
     gen |-> gen,
     lastSeen |-> NULL]

\* the record pushed for an accepted element set; gen (the init message it
\* came from) and lastSeen (the velocity computed for it last) are history
\* fields
NewSatRecord(tle, gen) ==
    [norad_id |-> tle.norad_id,
     name |-> tle.name,
     object_type |-> IF tle.object_type = "" THEN "UNKNOWN" ELSE tle.object_type,
     prevVelocity |-> NULL,
     gen |-> gen,
     lastSeen |-> NULL]

RECURSIVE TrackTLEs_abort(_, _)
TrackTLEs_abort(tles, gen) ==
    IF tles = <<>> \/ Head(tles).rejected THEN <<>>
    ELSE <<NewSatRecord(Head(tles), gen)>> \o TrackTLEs_abort(Tail(tles), gen)

RECURSIVE TrackTLEs(_, _)
\* the for loop of initTLEs: push a record per element set, skip the ones
\* twoline2satrec throws on
TrackTLEs(tles, gen) ==
    IF tles = <<>> THEN <<>>
    ELSE IF Head(tles).rejected THEN TrackTLEs(Tail(tles), gen)
    ELSE <<NewSatRecord(Head(tles), gen)>> \o TrackTLEs(Tail(tles), gen)

InitSatellites_append(old, tles, gen) == old \o TrackTLEs(tles, gen)

\* satellites = [] followed by the loop: the old array plays no part
InitSatellites(old, tles, gen) == TrackTLEs(tles, gen)

Posted(type, count, data, of) == [type |-> type, count |-> count, data |-> data, of |-> of]

InitCompleteMsg(sats, of) == Posted("init_complete", Len(sats), <<>>, of)

----------------------------------------------------------------------------
(* propagateAll *)

\* lines 95-99: Math.sqrt(x*x + y*y + z*z)
VelocityMagnitude(velocityEci) ==
    MathSqrt(Add(Add(Mul(velocityEci[1], velocityEci[1]),
                     Mul(velocityEci[2], velocityEci[2])),
                 Mul(velocityEci[3], velocityEci[3])))

ManeuverEvent(sat, deltaV, velocity, timestamp) ==
    [norad_id |-> sat.norad_id,
     name |-> sat.name,
     deltaV |-> deltaV,
     prevVelocity |-> sat.prevVelocity,
     newVelocity |-> velocity,
     timestamp |-> timestamp]

DetectManeuver_inclusive(sat, velocity, timestamp) ==
    IF sat.prevVelocity # NULL /\ Gt(velocity, Fin(0))
    THEN LET deltaV == MathAbs(Sub(velocity, sat.prevVelocity))
         IN IF ~Lt(deltaV, Fin(ManeuverThreshold)) /\ ~isNaN(deltaV)
            THEN <<ManeuverEvent(sat, deltaV, velocity, timestamp)>>
            ELSE <<>>
    ELSE <<>>

\* lines 102-114: the events (none or one) pushed to `maneuvers` for one
\* satellite
DetectManeuver(sat, velocity, timestamp) ==
    IF sat.prevVelocity # NULL /\ Gt(velocity, Fin(0))
    THEN LET deltaV == MathAbs(Sub(velocity, sat.prevVelocity))
         IN IF Gt(deltaV, Fin(ManeuverThreshold))
            THEN <<ManeuverEvent(sat, deltaV, velocity, timestamp)>>
            ELSE <<>>
    ELSE <<>>

StorePrevVelocity_onlyFirst(sat, velocity) ==
    IF sat.prevVelocity = NULL THEN [sat EXCEPT !.prevVelocity = velocity] ELSE sat

\* line 115: sat.prevVelocity = velocity
StorePrevVelocity(sat, velocity) ==
    [sat EXCEPT !.prevVelocity = velocity]

IsValidPosition_noCeiling(lat, lon, alt) ==
    /\ ~(isNaN(lat) \/ isNaN(lon) \/ isNaN(alt))
    /\ ~Lt(alt, Fin(0))

\* lines 118-119: the two `continue` filters, negated
IsValidPosition(lat, lon, alt) ==
    /\ ~(isNaN(lat) \/ isNaN(lon) \/ isNaN(alt))
    /\ ~(Lt(alt, Fin(0)) \/ Gt(alt, Fin(MaxAltitude)))

TrackedObjectState(sat, lat, lon, alt, velocity) ==
    [norad_id |-> sat.norad_id,
     name |-> sat.name,
     object_type |-> sat.object_type,
     lat |-> lat,
     lon |-> lon,
     alt |-> alt,
     velocity |-> velocity,
     gen |-> sat.gen]

Skipped(sat) == [sat |-> sat, results |-> <<>>, maneuvers |-> <<>>]

\* lines 73-132: the body of the loop for one satellite, given what the
\* satellite.js calls return for it
PropagateOne(sat, o, timestamp) ==
    IF o.prop = "throws" THEN Skipped(sat)
    ELSE IF o.prop = "noPosition" THEN Skipped(sat)
    ELSE IF o.prop = "noVelocity" THEN Skipped(sat)
    ELSE LET lat == degreesLat(o.geodetic.latitude)
             lon == degreesLong(o.geodetic.longitude)
             alt == o.geodetic.height
             velocity == VelocityMagnitude(o.velocity)
         IN IF lat.throws \/ lon.throws THEN Skipped(sat)
            ELSE [sat |-> [StorePrevVelocity(sat, velocity) EXCEPT !.lastSeen = velocity],
                  results |-> IF IsValidPosition(lat.value, lon.value, alt)
                              THEN <<TrackedObjectState(sat, lat.value, lon.value, alt, velocity)>>
                              ELSE <<>>,
                  maneuvers |-> DetectManeuver(sat, velocity, timestamp)]

RECURSIVE ForEachSat_abortOnThrow(_, _, _, _)
ForEachSat_abortOnThrow(i, acc, oracle, timestamp) ==
    IF i > Len(acc.sats) \/ oracle[i].prop = "throws" THEN acc
    ELSE LET r == PropagateOne(acc.sats[i], oracle[i], timestamp)
         IN ForEachSat_abortOnThrow(i + 1,
                [sats |-> [acc.sats EXCEPT ![i] = r.sat],
                 results |-> acc.results \o r.results,
                 maneuvers |-> acc.maneuvers \o r.maneuvers],
                oracle, timestamp)

RECURSIVE ForEachSat(_, _, _, _)
\* line 72: for (const sat of satellites), from index i on
ForEachSat(i, acc, oracle, timestamp) ==
    IF i > Len(acc.sats) THEN acc
    ELSE LET r == PropagateOne(acc.sats[i], oracle[i], timestamp)
         IN ForEachSat(i + 1,
                [sats |-> [acc.sats EXCEPT ![i] = r.sat],
                 results |-> acc.results \o r.results,
                 maneuvers |-> acc.maneuvers \o r.maneuvers],
                oracle, timestamp)

TickMessages_maneuversFirst(results, maneuvers, of) ==
    (IF Len(maneuvers) > 0 THEN <<Posted("maneuvers", 0, maneuvers, of)>> ELSE <<>>)
    \o <<Posted("positions", 0, results, of)>>

TickMessages_skipEmpty(results, maneuvers, of) ==
    (IF Len(results) > 0 THEN <<Posted("positions", 0, results, of)>> ELSE <<>>)
    \o (IF Len(maneuvers) > 0 THEN <<Posted("maneuvers", 0, maneuvers, of)>> ELSE <<>>)

\* lines 135-139: the messages a tick posts, in order
TickMessages(results, maneuvers, of) ==
    <<Posted("positions", 0, results, of)>>
    \o (IF Len(maneuvers) > 0 THEN <<Posted("maneuvers", 0, maneuvers, of)>> ELSE <<>>)

----------------------------------------------------------------------------
(* The worker as a state machine *)

Message(type, id, tles) == [type |-> type, id |-> id, tles |-> tles]

NoRun == [type |-> "none", id |-> 0, tles |-> <<>>, pre |-> <<>>, oracle |-> <<>>,
          shownBefore |-> {}]

NoInit == [id |-> 0, tles |-> <<>>]

\* the ids of the messages of one type in a sequence of posted messages
IdsOf(msgs, type) ==
    LET sel == SelectSeq(msgs, LAMBDA m : m.type = type)
    IN [i \in 1..Len(sel) |-> sel[i].of]

WorkerInit ==
    /\ inbox = <<>>
    /\ sent = 0
    /\ satellites = <<>>
    /\ outbox = <<>>
    /\ lastRun = NoRun
    /\ hist = [arrivedTicks |-> <<>>, handledTicks |-> <<>>, snapshots |-> <<>>,
               init |-> NoInit, shown |-> {}]

\* the main thread posts { type: 'init', tles }
PostInit ==
    /\ sent < MaxMsgs
    /\ Len(inbox) < MaxInbox
    /\ \E tles \in InitPayloads :
         inbox' = Append(inbox, Message("init", sent + 1, tles))
    /\ sent' = sent + 1
    /\ UNCHANGED <<satellites, outbox, lastRun, hist>>
    /\ UNCHANGED exceptWorker

\* the main thread posts { type: 'propagate', timestamp }; the timestamp is
\* the message's sequence number
PostPropagate ==
    /\ sent < MaxMsgs
    /\ Len(inbox) < MaxInbox
    /\ inbox' = Append(inbox, Message("propagate", sent + 1, <<>>))
    /\ sent' = sent + 1
    /\ hist' = [hist EXCEPT !.arrivedTicks = Append(@, sent + 1)]
    /\ UNCHANGED <<satellites, outbox, lastRun>>
    /\ UNCHANGED exceptWorker

\* a message of a type the switch has no case for
PostOther ==
    /\ sent < MaxMsgs
    /\ Len(inbox) < MaxInbox
    /\ inbox' = Append(inbox, Message("other", sent + 1, <<>>))
    /\ sent' = sent + 1
    /\ UNCHANGED <<satellites, outbox, lastRun, hist>>
    /\ UNCHANGED exceptWorker

\* self.onmessage, case 'init': initTLEs(event.data.tles)
initTLEs ==
    /\ inbox # <<>>
    /\ Head(inbox).type = "init"
    /\ LET m == Head(inbox)
           sats == InitSatellites(satellites, m.tles, m.id)
       IN /\ satellites' = sats
          /\ outbox' = <<InitCompleteMsg(sats, m.id)>>
          /\ hist' = [hist EXCEPT !.init = [id |-> m.id, tles |-> m.tles]]
          /\ lastRun' = [type |-> "init", id |-> m.id, tles |-> m.tles,
                         pre |-> satellites, oracle |-> <<>>, shownBefore |-> hist.shown]
    /\ inbox' = Tail(inbox)
    /\ UNCHANGED sent
    /\ UNCHANGED exceptWorker

\* self.onmessage, case 'propagate': propagateAll(event.data.timestamp)
propagateAll ==
    /\ inbox # <<>>
    /\ Head(inbox).type = "propagate"
    /\ \E oracle \in OraclesFor(satellites) :
       \E done \in {ForEachSat(1, [sats |-> satellites, results |-> <<>>, maneuvers |-> <<>>],
                                oracle, Head(inbox).id)} :
         LET m == Head(inbox)
         IN /\ satellites' = done.sats
            /\ outbox' = TickMessages(done.results, done.maneuvers, m.id)
            /\ hist' = [hist EXCEPT
                          !.handledTicks = Append(@, m.id),
                          !.snapshots = @ \o IdsOf(outbox', "positions"),
                          !.shown = { st.norad_id : st \in
                                        UNION { { p.data[j] : j \in 1..Len(p.data) } :
                                                p \in { outbox'[i] : i \in
                                                          { k \in 1..Len(outbox') :
                                                              outbox'[k].type = "positions" } } } }]
            /\ lastRun' = [type |-> "propagate", id |-> m.id, tles |-> <<>>,
                           pre |-> satellites, oracle |-> oracle,
                           shownBefore |-> hist.shown]
    /\ inbox' = Tail(inbox)
    /\ UNCHANGED sent
    /\ UNCHANGED exceptWorker

\* self.onmessage with any other type: the switch does nothing
IgnoreOther ==
    /\ inbox # <<>>
    /\ Head(inbox).type = "other"
    /\ outbox' = <<>>
    /\ lastRun' = [type |-> "other", id |-> Head(inbox).id, tles |-> <<>>,
                   pre |-> satellites, oracle |-> <<>>, shownBefore |-> hist.shown]
    /\ inbox' = Tail(inbox)
    /\ UNCHANGED <<sent, satellites, hist>>
    /\ UNCHANGED exceptWorker

WorkerNext ==
    \/ PostInit
    \/ PostPropagate
    \/ PostOther
    \/ initTLEs
    \/ propagateAll
    \/ IgnoreOther

----------------------------------------------------------------------------
(* Conjunction risk ladder: services/conjunctions (getRiskLevel) *)

getRiskLevel_inclusive(distance) ==
    IF ~Gt(distance, Fin(100)) /\ ~isNaN(distance) THEN "CRITICAL"
    ELSE IF Lt(distance, Fin(500)) THEN "HIGH"
    ELSE IF Lt(distance, Fin(2500)) THEN "MODERATE"
    ELSE "LOW"

\* distance in hundredths of a km: 1 km = 100, 5 km = 500, 25 km = 2500
getRiskLevel(distance) ==
    IF Lt(distance, Fin(100)) THEN "CRITICAL"
    ELSE IF Lt(distance, Fin(500)) THEN "HIGH"
    ELSE IF Lt(distance, Fin(2500)) THEN "MODERATE"
    ELSE "LOW"

\* the distances getRiskLevel is given: around each rung, far, negative,
\* NaN and the infinities
RiskDistances ==
    { Fin(d) : d \in { -100, 0, 80, 99, 100, 101, 490, 499, 500, 501,
                       2499, 2500, 2501, 2510, 50000 } }
    \cup { NaN, PInf, NInf }

NoRisk == [distance |-> NaN, level |-> "none"]

RiskInit == risk = [last |-> NoRisk, before |-> NoRisk]

\* a caller (AlertsPanel, CesiumViewer) classifies the distance of an event
Classify ==
    /\ \E d \in RiskDistances :
         risk' = [last |-> [distance |-> d, level |-> getRiskLevel(d)],
                  before |-> risk.last]
    /\ UNCHANGED exceptRisk

RiskNext == Classify

----------------------------------------------------------------------------
(* Conjunction screening: the server's screen and fetchConjunctions *)

\* positions in hundredths of a km on the line through (3, 4, 0), so that
\* every distance is a whole number: P(k) and P(j) are 5*|k - j| apart
P(k) == [x |-> Fin(3 * k), y |-> Fin(4 * k), z |-> Fin(70000)]

ObjectAt(id, k) == [norad_id |-> id, position |-> P(k)]

\* object 2 is 0.8 km from object 1, object 3 4.9 km, object 4 25.0 km,
\* object 5 25.1 km
Catalogue ==
    << ObjectAt(1, 0), ObjectAt(2, 16), ObjectAt(3, 98), ObjectAt(4, 500),
       ObjectAt(5, 502) >>

RECURSIVE SubSeqsOf(_)
\* the subsequences of a sequence
SubSeqsOf(seq) ==
    IF seq = <<>> THEN {<<>>}
    ELSE LET rest == SubSeqsOf(Tail(seq))
         IN rest \cup { <<Head(seq)>> \o r : r \in rest }

\* the sets of object states a screening pass may be given
ScreenInputs == SubSeqsOf(Catalogue)

\* the thresholds a caller passes: none (undefined), 5, 25 and 500 km
Undefined == [t |-> "undefined", v |-> 0]

ThresholdArgs == { Undefined, Fin(500), Fin(2500), Fin(50000) }

\* Euclidean distance between two positions
Distance(p, q) ==
    MathSqrt(Add(Add(Mul(Sub(p.x, q.x), Sub(p.x, q.x)),
                     Mul(Sub(p.y, q.y), Sub(p.y, q.y))),
                 Mul(Sub(p.z, q.z), Sub(p.z, q.z))))

ConjunctionEvent(a, b, distance, threshold) ==
    [sat1_norad |-> a.norad_id,
     sat2_norad |-> b.norad_id,
     distance |-> distance,
     threshold |-> threshold,
     sat1_position |-> a.position,
     sat2_position |-> b.position]

RECURSIVE ScreenFrom_orderedPairs(_, _, _, _)
ScreenFrom_orderedPairs(i, j, states, thresholdKm) ==
    IF i > Len(states) THEN <<>>
    ELSE IF j > Len(states) THEN ScreenFrom_orderedPairs(i + 1, 1, states, thresholdKm)
    ELSE LET d == Distance(states[i].position, states[j].position)
         IN (IF Lt(d, thresholdKm)
             THEN <<ConjunctionEvent(states[i], states[j], d, thresholdKm)>>
             ELSE <<>>)
            \o ScreenFrom_orderedPairs(i, j + 1, states, thresholdKm)

RECURSIVE ScreenFrom(_, _, _, _)
\* the pairs (i, j), i < j, in order, retaining those closer than the
\* threshold
ScreenFrom(i, j, states, thresholdKm) ==
    IF i >= Len(states) THEN <<>>
    ELSE IF j > Len(states) THEN ScreenFrom(i + 1, i + 2, states, thresholdKm)
    ELSE LET d == Distance(states[i].position, states[j].position)
         IN (IF Lt(d, thresholdKm)
             THEN <<ConjunctionEvent(states[i], states[j], d, thresholdKm)>>
             ELSE <<>>)
            \o ScreenFrom(i, j + 1, states, thresholdKm)

\* screen(states, thresholdKm)
screen(states, thresholdKm) == ScreenFrom(1, 2, states, thresholdKm)

DefaultThreshold == 5000

fetchConjunctions_dropsThreshold(states, threshold, requestOk) ==
    IF requestOk THEN screen(states, Fin(DefaultThreshold)) ELSE <<>>

\* fetchConjunctions(startTime, endTime, threshold = 50): the server's
\* answer to threshold_km = threshold, or [] when the request fails
fetchConjunctions(states, threshold, requestOk) ==
    IF requestOk
    THEN screen(states, IF threshold = Undefined THEN Fin(DefaultThreshold) ELSE threshold)
    ELSE <<>>

NoPoll == [states |-> <<>>, threshold |-> Undefined, outcome |-> "none", events |-> <<>>]

ConjInit == conj = NoPoll

\* a poll whose request succeeds
FetchOk ==
    /\ \E states \in ScreenInputs, threshold \in ThresholdArgs :
         conj' = [states |-> states, threshold |-> threshold, outcome |-> "ok",
                  events |-> fetchConjunctions(states, threshold, TRUE)]
    /\ UNCHANGED exceptConj

\* a poll whose request fails: the catch returns []
FetchFail ==
    /\ \E states \in ScreenInputs, threshold \in ThresholdArgs :
         conj' = [states |-> states, threshold |-> threshold, outcome |-> "failed",
                  events |-> fetchConjunctions(states, threshold, FALSE)]
    /\ UNCHANGED exceptConj

ScreenNext == FetchOk \/ FetchFail

----------------------------------------------------------------------------
(* The element parser: parseTLE (utils/tleParser)                          *)
(*                                                                         *)
(* A string is the sequence of its characters; a parsed float is a whole  *)
(* number of 10^-places, the places named where the field is parsed.       *)
(* Lengths are whole km, periods hundredths of a minute, the orbital speed *)
(* m/s.                                                                    *)

\* s.charAt(i - 1)
At(s, i) == IF i >= 1 /\ i <= Len(s) THEN s[i] ELSE ""

Min(a, b) == IF a < b THEN a ELSE b

Max(a, b) == IF a < b THEN b ELSE a

\* s.substring(from, to): both ends clamped to 0..length, swapped when from
\* is the larger
substring(s, from, to) ==
    LET f == Min(Max(from, 0), Len(s))
        t == Min(Max(to, 0), Len(s))
    IN SubSeq(s, Min(f, t) + 1, Max(f, t))

\* s.substring(from)
substringFrom(s, from) == substring(s, from, Len(s))

RECURSIVE TrimStart(_)
TrimStart(s) == IF At(s, 1) = " " THEN TrimStart(substringFrom(s, 1)) ELSE s

RECURSIVE TrimEnd(_)
TrimEnd(s) == IF At(s, Len(s)) = " " THEN TrimEnd(substring(s, 0, Len(s) - 1)) ELSE s

\* s.trim()
trim(s) == TrimEnd(TrimStart(s))

RECURSIVE IndexOf(_, _, _)
\* the first position from i on where s holds the character c, 0 if none
IndexOf(s, c, i) ==
    IF i > Len(s) THEN 0 ELSE IF At(s, i) = c THEN i ELSE IndexOf(s, c, i + 1)

\* s.replace(c, d) for one-character strings: the first c becomes d
replace(s, c, d) ==
    LET i == IndexOf(s, c, 1)
    IN IF i = 0 THEN s ELSE substring(s, 0, i - 1) \o <<d>> \o substringFrom(s, i)

DigitChars == <<"0", "1", "2", "3", "4", "5", "6", "7", "8", "9">>

IsDigit(c) == IndexOf(DigitChars, c, 1) # 0

DigitOf(c) == IndexOf(DigitChars, c, 1) - 1

RECURSIVE Pow10(_)
Pow10(k) == IF k <= 0 THEN 1 ELSE 10 * Pow10(k - 1)

RECURSIVE Digits(_, _, _, _)
\* the run of digits of s from position i on: its value after acc, how many
\* digits it has after n, and the position behind it
Digits(s, i, acc, n) ==
    IF IsDigit(At(s, i))
    THEN Digits(s, i + 1, 10 * acc + DigitOf(At(s, i)), n + 1)
    ELSE [value |-> acc, count |-> n, next |-> i]

RECURSIVE Fraction(_, _, _, _, _)
\* the run of digits of s from position i on, read as a fraction: its
\* first left digits after acc, padded to that many places, and how many
\* digits the run has after n
Fraction(s, i, left, acc, n) ==
    IF IsDigit(At(s, i))
    THEN Fraction(s, i + 1, Max(left - 1, 0),
                  IF left > 0 THEN 10 * acc + DigitOf(At(s, i)) ELSE acc, n + 1)
    ELSE [value |-> acc * Pow10(left), count |-> n]

\* parseInt(s): leading blanks, a sign, then the longest run of digits; NaN
\* without a digit
parseInt(s) ==
    LET t == TrimStart(s)
        signed == At(t, 1) \in {"+", "-"}
        d == Digits(t, IF signed THEN 2 ELSE 1, 0, 0)
    IN IF d.count = 0 THEN NaN
       ELSE Fin(IF At(t, 1) = "-" THEN 0 - d.value ELSE d.value)

\* parseFloat(s) in units of 10^-places: leading blanks, a sign, digits, a
\* point, digits; NaN without a digit.  Digits beyond the places are cut
\* off; no line of the model carries an exponent or the word Infinity.
parseFloat(s, places) ==
    LET t == TrimStart(s)
        signed == At(t, 1) \in {"+", "-"}
        whole == Digits(t, IF signed THEN 2 ELSE 1, 0, 0)
        part == IF At(t, whole.next) = "."
                THEN Fraction(t, whole.next + 1, places, 0, 0)
                ELSE [value |-> 0, count |-> 0]
        v == whole.value * Pow10(places) + part.value
    IN IF whole.count = 0 /\ part.count = 0 THEN NaN
       ELSE Fin(IF At(t, 1) = "-" THEN 0 - v ELSE v)

\* 6378.137 km, in whole km
EARTH_RADIUS_KM == 6378

\* 398600.4418 km^3/s^2, in thousandths
MU_EARTH == 398600442

\* epochYearShort >= 57 ? 1900 + epochYearShort : 2000 + epochYearShort
epochYear_pivot50(epochYearShort) ==
    IF ~Lt(epochYearShort, Fin(50)) /\ ~isNaN(epochYearShort)
    THEN Add(Fin(1900), epochYearShort)
    ELSE Add(Fin(2000), epochYearShort)

epochYear(epochYearShort) ==
    IF ~isNaN(epochYearShort) /\ ~Lt(epochYearShort, Fin(57))
    THEN Add(Fin(1900), epochYearShort)
    ELSE Add(Fin(2000), epochYearShort)

\* new Date(Date.UTC(epochYear, 0, 1)) moved on by (epochDay - 1) days: the
\* year and the days since 1 January (in 10^-4 days), or an
\* Invalid Date
epochDate(year, epochDay) ==
    IF IsFinite(year) /\ IsFinite(epochDay)
    THEN [valid |-> TRUE, year |-> year.v, days |-> epochDay.v - 10000]
    ELSE [valid |-> FALSE, year |-> 0, days |-> 0]

\* bstarMantissa * Math.pow(10, bstarExp), in thousandths
bstar(bstarMantissa, bstarExp) ==
    IF isNaN(bstarMantissa) \/ isNaN(bstarExp) THEN NaN
    ELSE IF bstarExp.v >= -3 THEN Fin(bstarMantissa.v * Pow10(3 + bstarExp.v))
    ELSE Fin(Sign(bstarMantissa.v)
               * (MathAbs(bstarMantissa).v \div Pow10(0 - 3 - bstarExp.v)))

\* 1440.0 / meanMotion, in hundredths of a minute, the mean motion in 10^-4
\* revolutions a day
period(meanMotion) ==
    IF isNaN(meanMotion) THEN NaN
    ELSE IF meanMotion.v = 0 THEN PInf
    ELSE Fin(Sign(meanMotion.v)
               * ((1440 * 100 * 10000) \div MathAbs(meanMotion).v))

\* period * 60, in hundredths of a second
periodSeconds(p) == Mul(p, Fin(60))

\* a^3 <= MU_EARTH * q^2 for a in km and q in tenths of a second, computed
\* as (a / q)^2 <= MU_EARTH / a so that no value leaves TLC's integers
KeplerLeq(a, q) ==
    \/ a = 0
    \/ LET r == (a * 10000) \div q
       IN r <= 46000 /\ (r * r) \div 1000 <= MU_EARTH \div a

RECURSIVE KeplerBisect(_, _, _)
\* the largest a in lo..hi with KeplerLeq(a, q)
KeplerBisect(q, lo, hi) ==
    IF lo >= hi THEN lo
    ELSE LET mid == (lo + hi + 1) \div 2
         IN IF KeplerLeq(mid, q) THEN KeplerBisect(q, mid, hi)
            ELSE KeplerBisect(q, lo, mid - 1)

\* Math.pow(MU_EARTH * Math.pow(periodSeconds / (2 * Math.PI), 2), 1 / 3),
\* in whole km; 2 * Math.PI is 6.283
semiMajorAxis(ps) ==
    IF isNaN(ps) THEN NaN
    ELSE IF ~IsFinite(ps) THEN PInf
    ELSE LET q == (MathAbs(ps).v * 100) \div 6283
         IN IF q = 0 THEN Fin(0) ELSE Fin(KeplerBisect(q, 0, 200000))

\* a * (1 + sign * eccentricity), the eccentricity in 10^-7
Scaled(a, sign, eccentricity) ==
    IF isNaN(a) \/ isNaN(eccentricity) THEN NaN
    ELSE IF ~IsFinite(a) THEN a
    ELSE Fin((a.v * ((10000000 + sign * eccentricity.v) \div 1000)) \div 10000)

apogee_inward(a, eccentricity) ==
    Sub(Scaled(a, -1, Add(eccentricity, eccentricity)), Fin(EARTH_RADIUS_KM))

\* semiMajorAxis * (1 + eccentricity) - EARTH_RADIUS_KM
apogee(a, eccentricity) == Sub(Scaled(a, 1, eccentricity), Fin(EARTH_RADIUS_KM))

\* semiMajorAxis * (1 - eccentricity) - EARTH_RADIUS_KM
perigee(a, eccentricity) == Sub(Scaled(a, -1, eccentricity), Fin(EARTH_RADIUS_KM))

\* Math.sqrt(MU_EARTH / semiMajorAxis), in m/s
orbitSpeed(a) ==
    IF isNaN(a) THEN NaN
    ELSE IF ~IsFinite(a) THEN Fin(0)
    ELSE IF a.v = 0 THEN PInf
    ELSE MathSqrt(Fin((MU_EARTH \div a.v) * 1000))

orbitType_leoFirst(p, eccentricity) ==
    IF Lt(p, Fin(2000)) THEN "LEO"
    ELSE IF Gt(eccentricity, Fin(2500000)) THEN "HEO"
    ELSE IF Lt(p, Fin(35000)) THEN "MEO"
    ELSE "GEO"

\* the orbit class from the perigee altitude and the eccentricity
orbitType(p, eccentricity) ==
    IF Lt(p, Fin(2000))
    THEN IF Gt(eccentricity, Fin(2500000)) THEN "HEO" ELSE "LEO"
    ELSE IF Lt(p, Fin(35000)) THEN "MEO"
    ELSE "GEO"

\* x || 0
OrZero(x) == IF isNaN(x) \/ x = Fin(0) THEN Fin(0) ELSE x

\* parseTLE(line1, line2): the record it returns; it has no throw statement
parseTLE(line1, line2) ==
    LET satelliteNumber == parseInt(trim(substring(line1, 2, 7)))
        epochYearShort == parseInt(trim(substring(line1, 18, 20)))
        epochDay == parseFloat(trim(substring(line1, 20, 32)), 4)
        year == epochYear(epochYearShort)
        bstarStr == trim(substring(line1, 53, 61))
        bstarMantissa ==
            parseFloat(replace(substring(bstarStr, 0, Len(bstarStr) - 2), " ", "+"), 0)
        bstarExp == parseInt(substringFrom(bstarStr, Len(bstarStr) - 2))
        eccentricity == parseFloat(<<"0", ".">> \o trim(substring(line2, 26, 33)), 7)
        meanMotion == parseFloat(trim(substring(line2, 52, 63)), 4)
        p == period(meanMotion)
        a == semiMajorAxis(periodSeconds(p))
    IN [satelliteNumber |-> satelliteNumber,
        classification |-> At(line1, 8),
        internationalDesignator |-> trim(substring(line1, 9, 17)),
        epochYear |-> year,
        epochDay |-> epochDay,
        epochDate |-> epochDate(year, epochDay),
        meanMotionDot |-> parseFloat(trim(substring(line1, 33, 43)), 8),
        bstar |-> bstar(bstarMantissa, bstarExp),
        inclination |-> parseFloat(trim(substring(line2, 8, 16)), 4),
        raan |-> parseFloat(trim(substring(line2, 17, 25)), 4),
        eccentricity |-> eccentricity,
        argOfPerigee |-> parseFloat(trim(substring(line2, 34, 42)), 4),
        meanAnomaly |-> parseFloat(trim(substring(line2, 43, 51)), 4),
        meanMotion |-> meanMotion,
        revNumber |-> OrZero(parseInt(trim(substring(line2, 63, 68)))),
        period |-> p,
        semiMajorAxis |-> a,
        apogee |-> apogee(a, eccentricity),
        perigee |-> perigee(a, eccentricity),
        velocity |-> orbitSpeed(a),
        orbitType |-> orbitType(perigee(a, eccentricity), eccentricity)]

RECURSIVE Padded(_, _)
\* the last width decimal digits of n
Padded(n, width) ==
    IF width = 0 THEN <<>>
    ELSE Padded(n \div 10, width - 1) \o <<DigitChars[(n % 10) + 1]>>

\* line 1 of an element set of the ISS with the epoch year yy in columns
\* 19-20
Line1Of(yy) ==
    <<"1", " ", "2", "5", "5", "4", "4", "U", " ", "9", "8", "0", "6", "7",
      "A", " ", " ", " ">>
    \o Padded(yy, 2) \o
    <<"1", "2", "3", ".", "1", "2", "3", "4", "5", "6", "7", "8", " ", " ",
      ".", "0", "0", "0", "1", "6", "7", "1", "7", " ", " ", "0", "0", "0",
      "0", "0", "-", "0", " ", " ", "1", "0", "2", "7", "0", "-", "3", " ",
      "0", " ", " ", "9", "0", "0", "5">>

\* line 1 without its last column
Line1Short == SubSeq(Line1Of(24), 1, 68)

\* line 1 cut off after the classification
Line1Cut == SubSeq(Line1Of(24), 1, 8)

\* line 1 with blank epoch columns
Line1NoEpoch ==
    SubSeq(Line1Of(24), 1, 18) \o [i \in 1..14 |-> " "] \o SubSeq(Line1Of(24), 33, 69)

\* line 2 with the eccentricity columns ecc and the mean motion columns mm
Line2Fields(ecc, mm) ==
    <<"2", " ", "2", "5", "5", "4", "4", " ", " ", "5", "1", ".", "6", "4",
      "1", "6", " ", "2", "4", "7", ".", "4", "6", "2", "7", " ">>
    \o ecc \o
    <<" ", "1", "3", "0", ".", "5", "3", "6", "0", " ", "3", "2", "5", ".",
      "0", "2", "8", "8", " ">>
    \o mm \o <<"1", "2", "3", "4", "5", "6">>

\* the mean motion columns of mm * 10^-4 revolutions a day: two digits, the
\* first blank when zero, a point and eight decimals
MotionColumns(mm) ==
    (IF mm < 100000 THEN <<" ">> ELSE Padded(mm \div 100000, 1))
    \o Padded(mm \div 10000, 1) \o <<".">> \o Padded(mm, 4) \o Padded(0, 4)

\* line 2 of an orbit of eccentricity ecc * 10^-7 and mean motion
\* mm * 10^-4 revolutions a day
Line2Of(ecc, mm) == Line2Fields(Padded(ecc, 7), MotionColumns(mm))

\* eccentricity and mean motion: the ISS, a Molniya orbit (perigee 527 km),
\* a GPS orbit, a geostationary one, eccentricity 0.25 and just above it at
\* 11 rev/day (perigee 26 km), eccentricity 0.25 at 13 rev/day and 0.8 at
\* 2 rev/day (perigee below the surface), 0.5 at 1.5 rev/day, perigee 2000
\* and 1999 km, perigee 35003 and 34999 km, mean motion zero
Orbits ==
    { <<6703, 154956>>, <<7400000, 20060>>, <<100000, 20056>>, <<2000, 10027>>,
      <<2500000, 110000>>, <<2500001, 110000>>, <<2500000, 130000>>,
      <<8000000, 20000>>, <<5000000, 15000>>, <<2066000, 80000>>,
      <<2067000, 80000>>, <<204000, 10000>>, <<205000, 10000>>, <<0, 0>> }

\* line 2 cut off after the catalogue number
Line2Cut == SubSeq(Line2Of(6703, 154956), 1, 7)

\* line 2 with letters in the eccentricity columns
Line2EccLetters ==
    Line2Fields(<<"A", "B", "C", "D", "E", "F", "G">>, MotionColumns(154956))

\* line 2 with blank mean motion columns
Line2NoMotion == Line2Fields(Padded(6703, 7), [i \in 1..11 |-> " "])

Line2s ==
    { Line2Of(o[1], o[2]) : o \in Orbits } \cup { Line2Cut, Line2EccLetters, Line2NoMotion }

\* the element sets parseTLE is called with; yy is the epoch year line 1 was
\* written with, -1 if it has none
TLEs ==
    { [yy |-> yy, line1 |-> Line1Of(yy), line2 |-> Line2Of(6703, 154956)] : yy \in 0..99 }
    \cup { [yy |-> 24, line1 |-> Line1Of(24), line2 |-> l2] : l2 \in Line2s }
    \cup { [yy |-> 24, line1 |-> Line1Short, line2 |-> l2] :
             l2 \in {Line2Of(6703, 154956), Line2Cut} }
    \cup { [yy |-> -1, line1 |-> l1, line2 |-> l2] :
             l1 \in {Line1Cut, Line1NoEpoch}, l2 \in {Line2Of(6703, 154956), Line2Cut} }

\* useState<OrbitalElements | null>(null)
TleInit ==
    tleParse = [line1 |-> <<>>, line2 |-> <<>>, yy |-> -1, parsed |-> FALSE,
                elements |-> NULL]

\* the satellite detail arrives with an element set: it is parsed and the
\* elements are set (a detail without one leaves them as they are)
SetElements ==
    /\ \E t \in TLEs :
         tleParse' = [line1 |-> t.line1, line2 |-> t.line2, yy |-> t.yy,
                      parsed |-> TRUE, elements |-> parseTLE(t.line1, t.line2)]
    /\ UNCHANGED exceptTle

ParseNext == SetElements

----------------------------------------------------------------------------
(* The visibility calculator (computeAccess, on the server) and the        *)
(* AccessIntervals component that loads its result.  Elevations are whole  *)
(* degrees, times whole seconds.                                           *)

\* samples of a trajectory per window
WindowSamples == 4

\* seconds between two samples
SampleStep == 60

\* the elevation mask of the station, in degrees
MinElevation == 10

\* elevations of a sample: below the mask, on it, above it
Elevations == {5, 10, 25, 40}

\* the sampled trajectories: sample i is taken at i * SampleStep
Trajectories ==
    { [i \in 1..WindowSamples |-> [t |-> i * SampleStep, elevation |-> el[i]]] :
        el \in [1..WindowSamples -> Elevations] }

\* the sample is above the mask
AboveMask(sample, mask) == sample.elevation > mask

AccessInterval(aos, los, max_elevation, max_el_time) ==
    [aos |-> aos, los |-> los, duration_s |-> los - aos,
     max_elevation |-> max_elevation, max_el_time |-> max_el_time]

\* no interval is open
Closed == [open |-> FALSE, interval |-> AccessInterval(0, 0, 0, 0)]

\* an interval begins with the sample
Begin(sample) ==
    [open |-> TRUE,
     interval |-> AccessInterval(sample.t, sample.t, sample.elevation, sample.t)]

Continue_keepsFirstMaximum(cur, sample) ==
    [open |-> TRUE,
     interval |-> AccessInterval(cur.interval.aos, sample.t,
                                 cur.interval.max_elevation, cur.interval.max_el_time)]

\* the open interval goes on to the sample; the maximum elevation and its
\* time are recorded
Continue(cur, sample) ==
    [open |-> TRUE,
     interval |->
        IF sample.elevation > cur.interval.max_elevation
        THEN AccessInterval(cur.interval.aos, sample.t, sample.elevation, sample.t)
        ELSE AccessInterval(cur.interval.aos, sample.t,
                            cur.interval.max_elevation, cur.interval.max_el_time)]

\* the interval that ends, if one is open
Ended(cur) == IF cur.open THEN <<cur.interval>> ELSE <<>>

RECURSIVE AccessFrom(_, _, _, _)
\* the intervals of the samples from i on, cur being what is open at i: an
\* interval begins when the elevation crosses above the mask and ends when
\* it crosses back below, or with the window
AccessFrom(i, cur, trajectory, mask) ==
    IF i > Len(trajectory) THEN Ended(cur)
    ELSE IF AboveMask(trajectory[i], mask)
    THEN AccessFrom(i + 1,
                    IF cur.open THEN Continue(cur, trajectory[i]) ELSE Begin(trajectory[i]),
                    trajectory, mask)
    ELSE Ended(cur) \o AccessFrom(i + 1, Closed, trajectory, mask)

RECURSIVE Reversed(_)
Reversed(seq) == IF seq = <<>> THEN <<>> ELSE Reversed(Tail(seq)) \o <<Head(seq)>>

computeAccess_latestFirst(trajectory, mask) ==
    Reversed(AccessFrom(1, Closed, trajectory, mask))

\* computeAccess(trajectory, station, window)
computeAccess(trajectory, mask) == AccessFrom(1, Closed, trajectory, mask)

\* useState<AccessIntervalsData | null>(null)
NoAccess == [trajectory |-> <<>>, outcome |-> "none", intervals |-> <<>>]

AccessInit == access = NoAccess

\* load: the request succeeds and the data are set
LoadOk ==
    /\ \E trajectory \in Trajectories :
         access' = [trajectory |-> trajectory, outcome |-> "ok",
                    intervals |-> computeAccess(trajectory, MinElevation)]
    /\ UNCHANGED exceptAccess

\* load: the request fails, the catch sets the data to null
LoadFail ==
    /\ \E trajectory \in Trajectories :
         access' = [trajectory |-> trajectory, outcome |-> "failed", intervals |-> <<>>]
    /\ UNCHANGED exceptAccess

AccessNext == LoadOk \/ LoadFail

----------------------------------------------------------------------------
(* The application's conjunction polls: loadRisks (App.tsx) and            *)
(* addNotification (hooks/useNotifications)                                *)

\* polls issued in one run
MaxPolls == 3

MAX_NOTIFICATIONS == 100

\* what the server tracks when it answers a poll: objects 1 and 2 (0.8 km
\* apart), 1 and 3 (4.9 km), 1 and 4 (25 km), or 1, 2 and 3
PollCatalogues ==
    { <<Catalogue[1], Catalogue[2]>>, <<Catalogue[1], Catalogue[3]>>,
      <<Catalogue[1], Catalogue[4]>>, <<Catalogue[1], Catalogue[2], Catalogue[3]>> }

\* loadRisks asks for 500 km
PollThreshold == Fin(50000)

\* `${c.sat1_norad}-${c.sat2_norad}`
KeyOf(c) == <<c.sat1_norad, c.sat2_norad>>

\* prev.map(c => key of c) as a set
PrevIds(prev) == { KeyOf(prev[n]) : n \in 1..Len(prev) }

AppNotification(type, severity, noradId, distance) ==
    [type |-> type, severity |-> severity, noradId |-> noradId,
     distance |-> distance, read |-> FALSE]

\* addNotification: the notification goes in front, the list is cut to
\* MAX_NOTIFICATIONS
addNotification(held, notification) ==
    LET all == <<notification>> \o held
    IN SubSeq(all, 1, Min(Len(all), MAX_NOTIFICATIONS))

RECURSIVE NotifyFrom(_, _, _, _)
\* data.forEach from n on: an event whose key is not among prevIds and whose
\* distance is below 5 km is notified, critical below 1 km
NotifyFrom(n, data, prevIds, held) ==
    IF n > Len(data) THEN held
    ELSE NotifyFrom(n + 1, data, prevIds,
            IF KeyOf(data[n]) \notin prevIds /\ Lt(data[n].distance, Fin(500))
            THEN addNotification(held,
                    AppNotification("conjunction",
                        IF Lt(data[n].distance, Fin(100)) THEN "critical" ELSE "warning",
                        data[n].sat1_norad, data[n].distance))
            ELSE held)

RECURSIVE UpdaterRuns(_, _, _, _)
\* the updater of setConjunctions invoked `runs` times on the same prev:
\* each invocation calls addNotification for the events it finds new
UpdaterRuns(runs, data, prevIds, held) ==
    IF runs = 0 THEN held
    ELSE UpdaterRuns(runs - 1, data, prevIds, NotifyFrom(1, data, prevIds, held))

\* React invokes an updater once, or more than once (Strict Mode, a render
\* started again)
Invocations == {1, 2}

\* nothing polled yet: useState<ConjunctionEvent[]>([]) and no notification;
\* heldOf and newest are history: the poll whose answer is the list held
\* and the latest-issued poll answered so far; prevKeys and raised: the
\* keys of the list held before the last answer and the notifications that
\* answer raised
AppInit ==
    app = [issued |-> 0, pending |-> <<>>, conjunctions |-> <<>>,
           notifications |-> <<>>, heldOf |-> 0, newest |-> 0,
           prevKeys |-> {}, raised |-> <<>>]

\* loadRisks is called (at mount, then every 30 s) and awaits
\* fetchConjunctions; the request succeeds or fails at the server's time
LoadRisksCall ==
    /\ app.issued < MaxPolls
    /\ \E states \in PollCatalogues, requestOk \in BOOLEAN :
         app' = [app EXCEPT
                   !.issued = @ + 1,
                   !.pending = Append(@, [poll |-> app.issued + 1,
                                          data |-> fetchConjunctions(states, PollThreshold,
                                                                     requestOk)])]
    /\ UNCHANGED exceptApp

\* the part of a sequence without its k-th element
Without(seq, k) == SubSeq(seq, 1, k - 1) \o SubSeq(seq, k + 1, Len(seq))

\* one awaited fetchConjunctions settles, whichever of the pending ones,
\* and the updater of setConjunctions runs on its data, once or more
LoadRisksResume ==
    /\ \E k \in 1..Len(app.pending), runs \in Invocations :
         LET answer == app.pending[k]
         IN app' = [app EXCEPT
                      !.pending = Without(@, k),
                      !.notifications = UpdaterRuns(runs, answer.data,
                                                    PrevIds(app.conjunctions), @),
                      !.raised = UpdaterRuns(runs, answer.data,
                                             PrevIds(app.conjunctions), <<>>),
                      !.prevKeys = PrevIds(app.conjunctions),
                      !.conjunctions = answer.data,
                      !.heldOf = answer.poll,
                      !.newest = IF answer.poll > @ THEN answer.poll ELSE @]
    /\ UNCHANGED exceptApp

AppNext == LoadRisksCall \/ LoadRisksResume

----------------------------------------------------------------------------
(* The watchlist hook: useWatchlist (hooks/useWatchlist)                   *)
(*                                                                         *)
(* A Set<number> is the sequence of its elements in insertion order; the   *)
(* stored value is the sequence of its characters.                         *)

\* toggleWatchlist calls between two mounts
MaxToggles == 3

\* updaters queued before a render
MaxQueued == 2

\* the ids toggled
WatchIds == {7, 25, 544}

\* set.has(x)
Has(set, x) == \E n \in 1..Len(set) : set[n] = x

\* set.delete(x)
Delete(set, x) == SelectSeq(set, LAMBDA e : e # x)

\* set.add(x)
AddTo(set, x) == IF Has(set, x) THEN set ELSE Append(set, x)

RECURSIVE NewSet(_, _)
\* new Set(array): the first n elements of the array are added in order
NewSet(array, n) ==
    IF n = 0 THEN <<>> ELSE AddTo(NewSet(array, n - 1), array[n])

RECURSIVE Decimal(_)
\* String(n) of a natural number
Decimal(n) ==
    IF n < 10 THEN <<DigitChars[n + 1]>>
    ELSE Decimal(n \div 10) \o <<DigitChars[(n % 10) + 1]>>

RECURSIVE Joined(_, _)
\* the numbers from the n-th on, each preceded by a comma
Joined(array, n) ==
    IF n > Len(array) THEN <<>>
    ELSE <<",">> \o Decimal(array[n]) \o Joined(array, n + 1)

\* JSON.stringify of an array of natural numbers
JSONstringify(array) ==
    IF array = <<>> THEN <<"[", "]">>
    ELSE <<"[">> \o Decimal(array[1]) \o Joined(array, 2) \o <<"]">>

\* JSON.parse throws
SyntaxError == [ok |-> FALSE, value |-> <<>>]

RECURSIVE DigitsEnd(_, _)
\* the position after the digits that start at i
DigitsEnd(s, i) == IF IsDigit(At(s, i)) THEN DigitsEnd(s, i + 1) ELSE i

RECURSIVE NaturalOf(_, _, _, _)
\* the number written by the digits from i to before j
NaturalOf(s, i, j, acc) ==
    IF i >= j THEN acc ELSE NaturalOf(s, i + 1, j, (acc * 10) + DigitOf(s[i]))

RECURSIVE ParseItems(_, _, _)
\* the items of an array from position i on, after those of acc
ParseItems(s, i, acc) ==
    LET j == DigitsEnd(s, i)
    IN IF j = i THEN SyntaxError
       ELSE IF At(s, j) = ","
       THEN ParseItems(s, j + 1, Append(acc, NaturalOf(s, i, j, 0)))
       ELSE IF At(s, j) = "]" /\ j = Len(s)
       THEN [ok |-> TRUE, value |-> Append(acc, NaturalOf(s, i, j, 0))]
       ELSE SyntaxError

\* JSON.parse of a text that is an array of natural numbers, or is not JSON
JSONparse(s) ==
    IF s = <<"[", "]">> THEN [ok |-> TRUE, value |-> <<>>]
    ELSE IF At(s, 1) = "[" THEN ParseItems(s, 2, <<>>)
    ELSE SyntaxError

\* localStorage.getItem(WATCHLIST_KEY) gives null
NoItem == [present |-> FALSE, text |-> <<>>]

Item(text) == [present |-> TRUE, text |-> text]

\* what an earlier session may have left under WATCHLIST_KEY: nothing, the
\* empty string, a watchlist, a watchlist with an id twice, a text cut short
StoredBefore ==
    { NoItem, Item(<<>>),
      Item(<<"[", "]">>),
      Item(<<"[", "2", "5", ",", "5", "4", "4", "]">>),
      Item(<<"[", "7", ",", "7", ",", "2", "5", "]">>),
      Item(<<"[", "2", "5", ",">>) }

\* the initializer of useState: the stored array as a Set; the empty Set
\* when nothing is stored or JSON.parse throws
LoadWatchlist(stored) ==
    IF stored.present /\ stored.text # <<>> /\ JSONparse(stored.text).ok
    THEN NewSet(JSONparse(stored.text).value, Len(JSONparse(stored.text).value))
    ELSE <<>>

Toggled_addOnly(prev, noradId) == AddTo(prev, noradId)

\* the updater of toggleWatchlist
Toggled(prev, noradId) ==
    IF Has(prev, noradId) THEN Delete(prev, noradId) ELSE AddTo(prev, noradId)

RECURSIVE ApplyQueue(_, _)
\* the queued updaters applied in order
ApplyQueue(prev, queue) ==
    IF queue = <<>> THEN prev
    ELSE ApplyQueue(Toggled(prev, Head(queue)), Tail(queue))

NoToggles == [id \in WatchIds |-> 0]

\* the toggleWatchlist calls since the mount
TogglesOf(toggles) == toggles[7] + toggles[25] + toggles[544]

\* the hook is not mounted
WatchInit ==
    watch = [mounted |-> FALSE, watchlist |-> <<>>, captured |-> <<>>,
             queue |-> <<>>, effectPending |-> FALSE, saved |-> "none",
             stored |-> NoItem, loaded |-> <<>>, toggles |-> NoToggles]

\* the first render: the initializer reads the stored value; the
\* persistence effect is to run
Mounted(stored) ==
    [mounted |-> TRUE, watchlist |-> LoadWatchlist(stored),
     captured |-> LoadWatchlist(stored), queue |-> <<>>,
     effectPending |-> TRUE, saved |-> "none", stored |-> stored,
     loaded |-> LoadWatchlist(stored), toggles |-> NoToggles]

\* the hook is mounted over what an earlier session left
Mount ==
    /\ ~watch.mounted
    /\ \E stored \in StoredBefore : watch' = Mounted(stored)
    /\ UNCHANGED exceptWatch

\* the page is loaded again: the hook is mounted over what is stored now
Reload ==
    /\ watch.mounted
    /\ watch' = Mounted(watch.stored)
    /\ UNCHANGED exceptWatch

\* toggleWatchlist(noradId): the updater is queued
ToggleWatchlist ==
    /\ watch.mounted
    /\ Len(watch.queue) < MaxQueued
    /\ \E noradId \in WatchIds :
         /\ TogglesOf(watch.toggles) < MaxToggles
         /\ watch' = [watch EXCEPT !.queue = Append(@, noradId),
                                   !.toggles[noradId] = @ + 1]
    /\ UNCHANGED exceptWatch

\* a render: the pending effect of the render before has run, the queued
\* updaters are applied, isWatched is made anew over the new watchlist, the
\* persistence effect is to run
Render ==
    /\ watch.mounted
    /\ watch.queue # <<>>
    /\ ~watch.effectPending
    /\ watch' = [watch EXCEPT !.watchlist = ApplyQueue(@, watch.queue),
                              !.captured = ApplyQueue(watch.watchlist, watch.queue),
                              !.queue = <<>>,
                              !.effectPending = TRUE]
    /\ UNCHANGED exceptWatch

\* the persistence effect: setItem stores the watchlist, or throws and the
\* catch logs it
PersistEffect ==
    /\ watch.mounted
    /\ watch.effectPending
    /\ \E thrown \in BOOLEAN :
         watch' = [watch EXCEPT
                     !.effectPending = FALSE,
                     !.saved = IF thrown THEN "failed" ELSE "ok",
                     !.stored = IF thrown THEN @ ELSE Item(JSONstringify(watch.watchlist))]
    /\ UNCHANGED exceptWatch

\* isWatched(noradId) of the last render
isWatched(noradId) == Has(watch.captured, noradId)

WatchNext == Mount \/ Reload \/ ToggleWatchlist \/ Render \/ PersistEffect

----------------------------------------------------------------------------
(* The useWorkerPositions hook (hooks/useWorkerPositions) and the worker   *)
(* as the hook sees it: 'init' is answered by 'init_complete', 'propagate' *)
(* by 'positions' and, when events were detected, by 'maneuvers'.          *)

\* 'propagate' messages posted while the hook is mounted
MaxTicks == 3

\* the maneuver log keeps this many events: slice(0, 50)
MaxManeuvers == 50

\* the numbers of events the worker detects in one tick
BatchSizes == {0, 1, 30, 60}

\* the events of the tick `of`, in the order the worker pushed them
Batch(of, size) == [n \in 1..size |-> [of |-> of, n |-> n]]

\* messages of a type in a sequence of messages
OfType(msgs, type) == SelectSeq(msgs, LAMBDA m : m.type = type)

\* s.slice(0, n)
Slice(s, n) == SubSeq(s, 1, Min(Len(s), n))

setManeuvers_appended(data, prev) ==
    LET all == prev \o data
    IN SubSeq(all, Max(1, Len(all) - MaxManeuvers + 1), Len(all))

\* the updater of setManeuvers: [...event.data.data, ...prev].slice(0, 50)
setManeuvers(data, prev) == Slice(data \o prev, MaxManeuvers)

ShouldTick_beforeReady(isReady, workerRef) == workerRef # "null"

\* the tick effect goes on: not (!isReady || !workerRef.current)
ShouldTick(isReady, workerRef) == isReady /\ workerRef # "null"

\* worker.postMessage: the message reaches a worker that is not terminated
PostToWorker(h, msg) ==
    [h EXCEPT !.posted = Append(@, msg),
              !.toWorker = IF h.worker = "running" THEN Append(@, msg) ELSE @]

\* the tick effect: nothing unless ready; else tick() posts 'propagate' at
\* once and the interval is set
RunTickEffect(h) ==
    IF ShouldTick(h.isReady, h.workerRef)
    THEN [PostToWorker(h, [type |-> "propagate", of |-> Len(OfType(h.posted, "propagate")) + 1])
            EXCEPT !.interval = TRUE, !.effectPending = FALSE]
    ELSE [h EXCEPT !.effectPending = FALSE]

\* the hook is not mounted
HookInit ==
    hook = [mounted |-> "no", worker |-> "none", workerRef |-> "null",
            request |-> "none", isReady |-> FALSE, satCount |-> 0,
            positions |-> 0, maneuvers |-> <<>>, interval |-> FALSE,
            effectPending |-> FALSE, toWorker |-> <<>>, fromWorker |-> <<>>,
            posted |-> <<>>, received |-> {}, initComplete |-> FALSE,
            fired |-> 0, postedAtUnmount |-> 0]

\* the mount: the first effect creates the worker and starts loadTLEs, the
\* tick effect runs with isReady false
HookMount ==
    /\ hook.mounted = "no"
    /\ hook' = RunTickEffect([hook EXCEPT !.mounted = "yes",
                                          !.worker = "running",
                                          !.workerRef = "worker",
                                          !.request = "pending"])
    /\ UNCHANGED exceptHook

\* loadTLEs: the request succeeds and 'init' is posted to the worker of
\* this mount
TlesArrive ==
    /\ hook.request = "pending"
    /\ hook' = [PostToWorker(hook, [type |-> "init", of |-> 0]) EXCEPT !.request = "done"]
    /\ UNCHANGED exceptHook

\* loadTLEs: the request fails and the catch logs it
TlesFail ==
    /\ hook.request = "pending"
    /\ hook' = [hook EXCEPT !.request = "failed"]
    /\ UNCHANGED exceptHook

\* the worker handles its next message: 'init' is answered by
\* 'init_complete'; 'propagate' by 'positions' and, when the tick detected
\* events, by 'maneuvers' after it
WorkerAnswers ==
    /\ hook.worker = "running"
    /\ hook.toWorker # <<>>
    /\ LET msg == Head(hook.toWorker)
       IN \E size \in BatchSizes :
            /\ msg.type = "init" => size = 0
            /\ hook' = [hook EXCEPT
                 !.toWorker = Tail(@),
                 !.fromWorker =
                    IF msg.type = "init"
                    THEN Append(@, [type |-> "init_complete", of |-> 0, data |-> <<>>])
                    ELSE Append(@, [type |-> "positions", of |-> msg.of, data |-> <<>>])
                         \o (IF size = 0 THEN <<>>
                             ELSE <<[type |-> "maneuvers", of |-> msg.of,
                                     data |-> Batch(msg.of, size)]>>)]
    /\ UNCHANGED exceptHook

\* worker.onmessage with the next message of the worker, and the render
\* that follows; after the unmount the setters do nothing
OnMessage ==
    /\ hook.fromWorker # <<>>
    /\ LET msg == Head(hook.fromWorker)
           rest == [hook EXCEPT !.fromWorker = Tail(@)]
       IN hook' =
            IF hook.mounted # "yes" THEN rest
            ELSE IF msg.type = "init_complete"
            THEN [rest EXCEPT !.isReady = TRUE, !.satCount = 1,
                              !.initComplete = TRUE,
                              !.effectPending = ~hook.isReady]
            ELSE IF msg.type = "positions"
            THEN [rest EXCEPT !.positions = msg.of]
            ELSE [rest EXCEPT !.maneuvers = setManeuvers(msg.data, @),
                              !.received = @ \cup { msg.data[n] : n \in 1..Len(msg.data) }]
    /\ UNCHANGED exceptHook

\* the tick effect runs after the render in which isReady changed
TickEffect ==
    /\ hook.mounted = "yes"
    /\ hook.effectPending
    /\ hook' = RunTickEffect(hook)
    /\ UNCHANGED exceptHook

\* the interval fires: tick() posts 'propagate' when workerRef.current is
\* set
IntervalFires ==
    /\ hook.interval
    /\ Len(OfType(hook.posted, "propagate")) < MaxTicks
    /\ hook' =
         IF hook.workerRef = "null" THEN [hook EXCEPT !.fired = @ + 1]
         ELSE [PostToWorker(hook, [type |-> "propagate",
                                   of |-> Len(OfType(hook.posted, "propagate")) + 1])
                 EXCEPT !.fired = @ + 1]
    /\ UNCHANGED exceptHook

\* the unmount, after the effects of the last render have run: the interval
\* is cleared, the worker terminated with what it had not handled yet,
\* workerRef.current set to null
HookUnmount ==
    /\ hook.mounted = "yes"
    /\ ~hook.effectPending
    /\ hook' = [hook EXCEPT !.mounted = "gone", !.interval = FALSE,
                            !.worker = "terminated", !.workerRef = "null",
                            !.toWorker = <<>>,
                            !.postedAtUnmount = Len(OfType(hook.posted, "propagate"))]
    /\ UNCHANGED exceptHook

HookNext ==
    \/ HookMount \/ TlesArrive \/ TlesFail \/ WorkerAnswers \/ OnMessage
    \/ TickEffect \/ IntervalFires \/ HookUnmount

----------------------------------------------------------------------------
(* The application's pass polls: loadPasses (App.tsx).  Times are whole    *)
(* minutes of system time.                                                 *)

\* polls made in one run
MaxPassPolls == 3

\* the aos of a pass as the server writes it: a timestamp, or a text that
\* is no date
AosAt(minute) == [date |-> TRUE, minute |-> minute]

AosGarbled == [date |-> FALSE, minute |-> 0]

\* new Date(aos).getTime(), in minutes: NaN for a text that is no date
GetTime(aos) == IF aos.date THEN Fin(aos.minute) ELSE NaN

SatellitePass(norad_id, aos) == [norad_id |-> norad_id, aos |-> aos, max_elevation |-> 45]

\* the passes the server may list
PassCatalogue ==
    { SatellitePass(1, AosAt(0)), SatellitePass(1, AosAt(5)),
      SatellitePass(1, AosAt(16)), SatellitePass(2, AosAt(16)),
      SatellitePass(1, AosAt(18)), SatellitePass(1, AosGarbled) }

\* the answers to a poll: no pass, one, two, or the same pass twice
PassAnswers ==
    {<<>>} \cup { <<p>> : p \in PassCatalogue }
    \cup { <<p, q>> : p \in PassCatalogue, q \in PassCatalogue }

\* fetchNextPasses(ts, 24): the server's passes, or none when the request
\* fails
fetchNextPasses(answer, requestOk) == IF requestOk THEN answer ELSE <<>>

\* `${pass.norad_id}-${pass.aos}`
PassKey(pass) == <<pass.norad_id, pass.aos>>

\* (aosTime - nowTime) / 1000 / 60
TimeToAos(pass, now) == Sub(GetTime(pass.aos), Fin(now))

\* x <= y as JavaScript evaluates it
Lte(x, y) == Lt(x, y) \/ (~isNaN(x) /\ x = y)

\* timeToAos > 0 && timeToAos <= 15 && !notifiedPassIds.current.has(key)
ShouldNotify(pass, now, notified) ==
    /\ Gt(TimeToAos(pass, now), Fin(0))
    /\ Lte(TimeToAos(pass, now), Fin(15))
    /\ PassKey(pass) \notin notified

PassNotification(pass, now) ==
    [type |-> "visibility", severity |-> "info", noradId |-> pass.norad_id,
     minutes |-> TimeToAos(pass, now), read |-> FALSE]

RECURSIVE PassesFrom(_, _, _, _)
\* data.passes.forEach from n on, over the state of the poll
PassesFrom(n, passes, now, p) ==
    IF n > Len(passes) THEN p
    ELSE PassesFrom(n + 1, passes, now,
            IF ShouldNotify(passes[n], now, p.notified)
            THEN [p EXCEPT
                    !.notifications = addNotification(@, PassNotification(passes[n], now)),
                    !.notified = @ \cup {PassKey(passes[n])},
                    !.raised = Append(@, [key |-> PassKey(passes[n]),
                                          timeToAos |-> TimeToAos(passes[n], now)])]
            ELSE p)

\* no poll made: notifiedPassIds is empty
PassInit ==
    passPoll = [polls |-> 0, now |-> 0, passes |-> <<>>, notified |-> {},
                notifications |-> <<>>, raised |-> <<>>]

\* loadPasses, at the mount and then each minute: the passes are set and
\* each is looked at for a notification
LoadPasses ==
    /\ passPoll.polls < MaxPassPolls
    /\ \E answer \in PassAnswers, requestOk \in BOOLEAN :
         LET now == passPoll.polls
             passes == fetchNextPasses(answer, requestOk)
         IN passPoll' = PassesFrom(1, passes, now,
                            [passPoll EXCEPT !.polls = @ + 1, !.now = now,
                                             !.passes = passes])
    /\ UNCHANGED exceptPasses

PassNext == LoadPasses

----------------------------------------------------------------------------
(* PositionWebSocket (components/ManeuverLog.tsx).  The sockets the        *)
(* instance created are numbered in the order of creation; ws is the       *)
(* number of the socket held in this.ws, 0 for null.                       *)

\* sockets created by one instance
MaxSockets == 3

\* this.ws?.readyState
ReadyState(p) == IF p.ws = 0 THEN "none" ELSE p.sockets[p.ws]

disconnect_keepsReconnect(p) ==
    [p EXCEPT !.reconnectTimer = FALSE,
              !.pendingTimers = IF p.reconnectTimer THEN @ - 1 ELSE @,
              !.sockets = IF ReadyState(p) \in {"connecting", "open"}
                          THEN [@ EXCEPT ![p.ws] = "closing"] ELSE @,
              !.ws = 0]

\* scheduleReconnect(): nothing when a timer is held, else a timer of 5 s
scheduleReconnect(p) ==
    IF p.reconnectTimer THEN p
    ELSE [p EXCEPT !.reconnectTimer = TRUE, !.pendingTimers = @ + 1]

\* connect(): nothing when this.ws is OPEN; else a new socket with the
\* handlers installed becomes this.ws, or new WebSocket throws and the catch
\* schedules a reconnect
connect(p, thrown) ==
    IF ReadyState(p) = "open" THEN p
    ELSE IF thrown THEN scheduleReconnect(p)
    ELSE [p EXCEPT !.sockets = Append(@, "connecting"),
                   !.ws = Len(p.sockets) + 1]

\* disconnect()
disconnect(p) ==
    [p EXCEPT !.shouldReconnect = FALSE,
              !.reconnectTimer = FALSE,
              !.pendingTimers = IF p.reconnectTimer THEN @ - 1 ELSE @,
              !.sockets = IF ReadyState(p) \in {"connecting", "open"}
                          THEN [@ EXCEPT ![p.ws] = "closing"] ELSE @,
              !.ws = 0]

\* the instance after construction
SocketInit ==
    pws = [ws |-> 0, sockets |-> <<>>, reconnectTimer |-> FALSE,
           shouldReconnect |-> TRUE, pendingTimers |-> 0,
           disconnected |-> FALSE, socketsAtDisconnect |-> 0,
           last |-> [event |-> "none", socket |-> 0], invoked |-> 0]

\* the owner calls connect()
Connect ==
    /\ Len(pws.sockets) < MaxSockets
    /\ \E thrown \in BOOLEAN :
         pws' = [connect(pws, thrown) EXCEPT
                   !.disconnected = FALSE,
                   !.last = [event |-> "connect", socket |-> 0]]
    /\ UNCHANGED exceptSocket

\* the owner calls disconnect()
Disconnect ==
    /\ pws' = [disconnect(pws) EXCEPT
                 !.disconnected = TRUE,
                 !.socketsAtDisconnect = Len(pws.sockets),
                 !.last = [event |-> "disconnect", socket |-> pws.ws]]
    /\ UNCHANGED exceptSocket

\* the reconnect timer fires
TimerFires ==
    /\ pws.pendingTimers > 0
    /\ Len(pws.sockets) < MaxSockets
    /\ \E thrown \in BOOLEAN :
         LET fired == [pws EXCEPT !.reconnectTimer = FALSE, !.pendingTimers = @ - 1]
         IN pws' = [(IF pws.shouldReconnect THEN connect(fired, thrown) ELSE fired)
                      EXCEPT !.last = [event |-> "timer", socket |-> 0]]
    /\ UNCHANGED exceptSocket

\* a socket opens: onopen sends the configuration on this.ws
SocketOpens ==
    /\ \E s \in 1..Len(pws.sockets) :
         /\ pws.sockets[s] = "connecting"
         /\ pws' = [pws EXCEPT !.sockets[s] = "open",
                               !.last = [event |-> "open", socket |-> s]]
    /\ UNCHANGED exceptSocket

\* a socket is closed by the peer or the network, or the close that
\* disconnect() began completes: onclose schedules a reconnect when
\* shouldReconnect is set
SocketCloses ==
    /\ \E s \in 1..Len(pws.sockets) :
         /\ pws.sockets[s] # "closed"
         /\ LET closed == [pws EXCEPT !.sockets[s] = "closed"]
            IN pws' = [(IF pws.shouldReconnect THEN scheduleReconnect(closed) ELSE closed)
                         EXCEPT !.last =
                            [event |-> IF pws.sockets[s] = "closing" THEN "closed"
                                       ELSE "closedByPeer",
                             socket |-> s]]
    /\ UNCHANGED exceptSocket

\* the server pushes the positions to the connections of the client:
\* onmessage of every open socket calls onPosition
ServerPush ==
    /\ \E s \in 1..Len(pws.sockets) : pws.sockets[s] = "open"
    /\ pws' = [pws EXCEPT
                 !.invoked = Cardinality({ s \in 1..Len(pws.sockets) :
                                             pws.sockets[s] = "open" }),
                 !.last = [event |-> "push", socket |-> 0]]
    /\ UNCHANGED exceptSocket

SocketNext ==
    \/ Connect \/ Disconnect \/ TimerFires \/ SocketOpens \/ SocketCloses
    \/ ServerPush

----------------------------------------------------------------------------
(* Specifications *)

Init == WorkerInit /\ RiskInit /\ ConjInit /\ TleInit /\ AccessInit /\ AppInit /\ WatchInit /\ HookInit /\ PassInit /\ SocketInit

Next == WorkerNext

\* the worker
Spec == Init /\ [][Next]_vars

\* getRiskLevel on its own
SpecRisk == Init /\ [][RiskNext]_vars

\* conjunction polls on their own
SpecScreen == Init /\ [][ScreenNext]_vars

\* parseTLE on its own
SpecParse == Init /\ [][ParseNext]_vars

\* loads of the access intervals on their own
SpecAccess == Init /\ [][AccessNext]_vars

\* the conjunction polls of the application on their own
SpecApp == Init /\ [][AppNext]_vars

\* the watchlist hook on its own
SpecWatch == Init /\ [][WatchNext]_vars

\* the useWorkerPositions hook and its worker on their own
SpecHook == Init /\ [][HookNext]_vars

\* the pass polls of the application on their own
SpecPasses == Init /\ [][PassNext]_vars

\* a PositionWebSocket instance on its own
SpecSocket == Init /\ [][SocketNext]_vars

----------------------------------------------------------------------------
(* Vocabulary of the properties of the worker *)

LastWasTick == lastRun.type = "propagate"

LastWasInit == lastRun.type = "init"

Range(seq) == { seq[i] : i \in 1..Len(seq) }

PositionsPosted == SelectSeq(outbox, LAMBDA m : m.type = "positions")

ManeuversPosted == SelectSeq(outbox, LAMBDA m : m.type = "maneuvers")

\* the states of the snapshots, and the events, the last handler posted
SnapshotStates == UNION { Range(m.data) : m \in Range(PositionsPosted) }

EventsPosted == UNION { Range(m.data) : m \in Range(ManeuversPosted) }

EventsFor(id) == { e \in EventsPosted : e.norad_id = id }

NoradIds(seq) == [i \in 1..Len(seq) |-> seq[i].norad_id]

\* the tick got as far as computing a velocity for the object: propagate
\* returned a position/velocity pair and neither degree conversion threw
VelocityObserved(o) ==
    /\ o.prop = "ok"
    /\ o.geodetic.latitude \in {NaN} \cup { Fin(d) : d \in -90..90 }
    /\ o.geodetic.longitude \in {NaN} \cup { Fin(d) : d \in -180..180 }

\* the result of the tick for the object is a finite, in-range state
ResultValid(o) ==
    /\ o.prop = "ok"
    /\ o.geodetic.latitude \in { Fin(d) : d \in -90..90 }
    /\ o.geodetic.longitude \in { Fin(d) : d \in -180..180 }
    /\ IsFinite(o.geodetic.height)
    /\ o.geodetic.height.v >= 0
    /\ o.geodetic.height.v <= 100000

----------------------------------------------------------------------------
(* Properties of the worker *)

\* C1: every state of every 'positions' snapshot a tick posts has finite
\* latitude, longitude and altitude, and an altitude within [0, 100000] km.
C1_SnapshotStatesFiniteInRange ==
    \A st \in SnapshotStates :
        /\ IsFinite(st.lat) /\ IsFinite(st.lon) /\ IsFinite(st.alt)
        /\ st.alt.v >= 0
        /\ st.alt.v <= 100000

\* a tick in which SAT1 came out with an infinite altitude and was left out
\* of a snapshot that still holds the other object
C1_Witness ==
    /\ LastWasTick
    /\ \E i \in 1..Len(lastRun.oracle) : lastRun.oracle[i].geodetic.height = PInf
    /\ SnapshotStates # {}

\* C2: every handled 'propagate' message posted exactly one 'positions'
\* message, in its own handler run (so before the next message is handled);
\* the snapshots follow the arrival order of the ticks and no tick that
\* arrived is skipped.
C2_OneSnapshotPerTickInOrder ==
    /\ hist.snapshots = hist.handledTicks
    /\ hist.handledTicks =
         SelectSeq(hist.arrivedTicks, LAMBDA id : id <= sent - Len(inbox))
    /\ \A i, j \in 1..Len(hist.snapshots) : i < j => hist.snapshots[i] < hist.snapshots[j]
    /\ LastWasTick => IdsOf(outbox, "positions") = <<lastRun.id>>

\* two ticks were handled and both posted their snapshot, the later one an
\* empty snapshot because both tracked objects were dropped
C2_Witness ==
    /\ Len(hist.handledTicks) >= 2
    /\ LastWasTick
    /\ Len(PositionsPosted) = 1
    /\ PositionsPosted[1].data = <<>>
    /\ Len(lastRun.pre) = 2

\* C3: once an 'init' message is handled the tracked set holds only element
\* sets of the init handled last, right after it no previous velocity is
\* stored, and every snapshot holds only objects of the init handled last.
C3_InitReplacesTrackedSet ==
    /\ hist.init = NoInit => satellites = <<>>
    /\ \A sat \in Range(satellites) :
          /\ sat.gen = hist.init.id
          /\ sat.norad_id \in Range(NoradIds(hist.init.tles))
    /\ LastWasInit => \A sat \in Range(satellites) : sat.prevVelocity = NULL
    /\ \A st \in SnapshotStates :
          /\ st.gen = hist.init.id
          /\ st.norad_id \in Range(NoradIds(hist.init.tles))

\* init, tick, init, tick: the first tick showed SAT2, the second init
\* tracks SAT1 alone, and the tick after it posts a snapshot of SAT1
C3_Witness ==
    /\ LastWasTick
    /\ hist.handledTicks = <<2, 4>>
    /\ hist.init.id = 3
    /\ 2 \in lastRun.shownBefore
    /\ NoradIds(satellites) = <<1>>
    /\ SnapshotStates # {}

\* C4: initTLEs of n element sets, k of them rejected, tracks the n-k
\* accepted ones in input order and posts one 'init_complete' with count n-k.
C4_InitSkipsRejected ==
    LastWasInit =>
        LET tles == lastRun.tles
            k == Cardinality({ i \in 1..Len(tles) : tles[i].rejected })
            accepted == SelectSeq(tles, LAMBDA t : ~t.rejected)
        IN /\ Len(satellites) = Len(tles) - k
           /\ NoradIds(satellites) = NoradIds(accepted)
           /\ Len(outbox) = 1
           /\ outbox[1].type = "init_complete"
           /\ outbox[1].count = Len(tles) - k

\* an init of three element sets of which the second is rejected
C4_Witness ==
    /\ LastWasInit
    /\ Len(lastRun.tles) = 3
    /\ lastRun.tles[2].rejected
    /\ Len(satellites) = 2

\* C5: a tick leaves the tracked set as it was, and its snapshot holds, in
\* order, exactly the objects whose result in this tick is valid, whatever
\* happened to the others and in earlier ticks.
C5_FailureIsPerObjectPerTick ==
    LastWasTick =>
        /\ NoradIds(satellites) = NoradIds(lastRun.pre)
        /\ Len(PositionsPosted) = 1
        /\ NoradIds(PositionsPosted[1].data) =
             NoradIds(SelectSeq([i \in 1..Len(lastRun.pre) |->
                                    [norad_id |-> lastRun.pre[i].norad_id,
                                     valid |-> ResultValid(lastRun.oracle[i])]],
                                LAMBDA r : r.valid))

\* a tick in which propagation of the first object threw and the second
\* object, left out of the snapshot of the tick before although a velocity
\* was computed for it, is in the snapshot
C5_Witness ==
    /\ LastWasTick
    /\ Len(lastRun.pre) = 2
    /\ lastRun.oracle[1].prop = "throws"
    /\ lastRun.pre[2].lastSeen # NULL
    /\ lastRun.pre[2].norad_id \notin lastRun.shownBefore
    /\ lastRun.pre[2].norad_id \in { st.norad_id : st \in SnapshotStates }

\* what the last tick did for the i-th tracked object
PrevOf(i) == lastRun.pre[i].prevVelocity

NewOf(i) == VelocityMagnitude(lastRun.oracle[i].velocity)

DeltaOf(i) == MathAbs(Sub(NewOf(i), PrevOf(i)))

EventsOf(i) == EventsFor(lastRun.pre[i].norad_id)

\* the tick computed a velocity for the i-th object, which had a stored one
Compared(i) == VelocityObserved(lastRun.oracle[i]) /\ PrevOf(i) # NULL

EventCarries(i) ==
    \A e \in EventsOf(i) :
        /\ e.prevVelocity = PrevOf(i)
        /\ e.newVelocity = NewOf(i)
        /\ e.deltaV = DeltaOf(i)

C7_FirstObservationNeverEmits ==
    LastWasTick =>
        \A i \in 1..Len(lastRun.pre) :
            lastRun.pre[i].lastSeen = NULL => EventsOf(i) = {}

\* init, tick, init, tick: SAT1 was in the snapshot of the first tick, so
\* had a stored velocity when the second init replaced it; the tick after
\* that init observes it at 7.560 km/s and stores that, without an event
C7_Witness ==
    /\ LastWasTick
    /\ hist.handledTicks = <<2, 4>>
    /\ hist.init.id = 3
    /\ 1 \in lastRun.shownBefore
    /\ \E i \in 1..Len(lastRun.pre) :
          /\ lastRun.pre[i].norad_id = 1
          /\ lastRun.pre[i].lastSeen = NULL
          /\ VelocityObserved(lastRun.oracle[i])
          /\ NewOf(i) = Fin(7560)
          /\ satellites[i].prevVelocity = Fin(7560)
          /\ EventsOf(i) = {}

\* C8: after a tick that computed a velocity for an object the stored
\* previous velocity is that velocity, event or not; an event compares
\* against the velocity computed last, and a velocity equal to the one
\* computed last gives no event.
C8_StoredVelocityIsLatest ==
    LastWasTick =>
        \A i \in 1..Len(lastRun.pre) :
            VelocityObserved(lastRun.oracle[i]) =>
                /\ satellites[i].prevVelocity = NewOf(i)
                /\ \A e \in EventsOf(i) : e.prevVelocity = lastRun.pre[i].lastSeen
                /\ NewOf(i) = lastRun.pre[i].lastSeen => EventsOf(i) = {}

\* a tick that emitted an event for the jump 7.500 -> 7.560 km/s and stored
\* 7.560
C8_Witness ==
    /\ LastWasTick
    /\ \E i \in 1..Len(lastRun.pre) :
          /\ VelocityObserved(lastRun.oracle[i])
          /\ lastRun.pre[i].lastSeen = Fin(7500)
          /\ NewOf(i) = Fin(7560)
          /\ EventsOf(i) # {}
          /\ satellites[i].prevVelocity = Fin(7560)

\* C20: in a tick where an object's result is dropped by the validity
\* filter no ManeuverEvent is emitted for the object and its stored previous
\* velocity stays as it was, and every ManeuverEvent of a tick names an
\* object of the tick's snapshot.
C20_DroppedResultIsNotProcessed ==
    LastWasTick =>
        /\ \A i \in 1..Len(lastRun.pre) :
              (VelocityObserved(lastRun.oracle[i]) /\ ~ResultValid(lastRun.oracle[i])) =>
                 /\ EventsOf(i) = {}
                 /\ satellites[i].prevVelocity = PrevOf(i)
        /\ \A e \in EventsPosted :
              e.norad_id \in { st.norad_id : st \in SnapshotStates }

\* the last tick detected a maneuver of the i-th tracked object
Detected(i) ==
    /\ Compared(i)
    /\ Gt(NewOf(i), Fin(0))
    /\ Gt(DeltaOf(i), Fin(ManeuverThreshold))

\* C24: a tick posts its 'positions' message first; it posts at most one
\* 'maneuvers' message, after the snapshot of the same tick and never empty,
\* and posts it exactly when the tick detected at least one maneuver; no
\* other handler posts a 'maneuvers' message.
C24_SnapshotThenAtMostOneManeuvers ==
    /\ ~LastWasTick => ManeuversPosted = <<>>
    /\ LastWasTick =>
          /\ outbox # <<>>
          /\ outbox[1].type = "positions"
          /\ outbox[1].of = lastRun.id
          /\ Len(ManeuversPosted) <= 1
          /\ \A k \in 1..Len(outbox) :
                outbox[k].type = "maneuvers" =>
                   /\ k > 1
                   /\ outbox[k].of = lastRun.id
                   /\ outbox[k].data # <<>>
          /\ (ManeuversPosted # <<>>) <=> (\E i \in 1..Len(lastRun.pre) : Detected(i))

\* a tick that posted its snapshot and then one 'maneuvers' message with one
\* event
C24_Witness ==
    /\ LastWasTick
    /\ Len(outbox) = 2
    /\ outbox[1].type = "positions"
    /\ outbox[1].data # <<>>
    /\ outbox[2].type = "maneuvers"
    /\ Len(outbox[2].data) = 1
    /\ \E i \in 1..Len(lastRun.pre) : Detected(i)

----------------------------------------------------------------------------
(* Properties of the risk ladder and of the screening *)

Severity(level) ==
    IF level = "CRITICAL" THEN 3
    ELSE IF level = "HIGH" THEN 2
    ELSE IF level = "MODERATE" THEN 1
    ELSE 0

\* the bucket of the ladder a distance belongs to
Bucket(d) ==
    IF d = NInf THEN "CRITICAL"
    ELSE IF d = PInf \/ d = NaN THEN "LOW"
    ELSE IF d.v < 100 THEN "CRITICAL"
    ELSE IF 100 <= d.v /\ d.v < 500 THEN "HIGH"
    ELSE IF 500 <= d.v /\ d.v < 2500 THEN "MODERATE"
    ELSE "LOW"

\* C9: getRiskLevel gives CRITICAL below 1 km, HIGH from 1 to below 5 km,
\* MODERATE from 5 to below 25 km and LOW otherwise, and of two distances
\* the larger never gets the more severe level.
C9_RiskLadder ==
    /\ risk.last.level # "none" =>
          /\ risk.last.level \in {"CRITICAL", "HIGH", "MODERATE", "LOW"}
          /\ risk.last.level = Bucket(risk.last.distance)
    /\ (risk.before.level # "none" /\ Lt(risk.before.distance, risk.last.distance)) =>
          Severity(risk.before.level) >= Severity(risk.last.level)

\* 4.9 km classified HIGH and then 0.8 km classified CRITICAL
C9_Witness ==
    /\ risk.before = [distance |-> Fin(490), level |-> "HIGH"]
    /\ risk.last = [distance |-> Fin(80), level |-> "CRITICAL"]

\* the threshold the server is asked for
ThresholdAsked == IF conj.threshold = Undefined THEN Fin(5000) ELSE conj.threshold

\* the events returned for the objects i and j of the screened states
EventsOfPair(i, j) ==
    { n \in 1..Len(conj.events) :
        {conj.events[n].sat1_norad, conj.events[n].sat2_norad}
          = {conj.states[i].norad_id, conj.states[j].norad_id} }

\* the distance of two objects of the catalogue, from their places on the
\* line: 5 hundredths of a km per step
Apart(a, b) ==
    LET ka == a.position.x.v \div 3
        kb == b.position.x.v \div 3
    IN IF ka < kb THEN 5 * (kb - ka) ELSE 5 * (ka - kb)

\* C10: a successful poll returns an event for a pair of screened objects
\* exactly when the pair is closer than the threshold asked for, and every
\* returned event has a distance below that threshold.
C10_ScreenRetainsBelowThreshold ==
    conj.outcome = "ok" =>
        /\ \A i, j \in 1..Len(conj.states) :
              i < j =>
                 (EventsOfPair(i, j) # {}
                    <=> Apart(conj.states[i], conj.states[j]) < ThresholdAsked.v)
        /\ \A n \in 1..Len(conj.events) :
              /\ IsFinite(conj.events[n].distance)
              /\ conj.events[n].distance.v < ThresholdAsked.v

\* threshold 25 km over all five objects: the pair 25.1 km apart (1, 5) and
\* the pair 25.0 km apart (1, 4) are absent, the pair 0.8 km apart is there
C10_Witness ==
    /\ conj.outcome = "ok"
    /\ conj.threshold = Fin(2500)
    /\ conj.states = Catalogue
    /\ EventsOfPair(1, 5) = {}
    /\ EventsOfPair(1, 4) = {}
    /\ \E n \in EventsOfPair(1, 2) : conj.events[n].distance = Fin(80)

\* the objects an event pairs
PairOf(e) == {e.sat1_norad, e.sat2_norad}

\* C11: in the events one poll returns, no two events pair the same two
\* objects, in either order, and no event pairs an object with itself.
C11_EachUnorderedPairAtMostOnce ==
    /\ \A m, n \in 1..Len(conj.events) :
          m # n => PairOf(conj.events[m]) # PairOf(conj.events[n])
    /\ \A n \in 1..Len(conj.events) :
          conj.events[n].sat1_norad # conj.events[n].sat2_norad

\* all five objects screened at 500 km: each of the ten pairs is returned,
\* once
C11_Witness ==
    /\ conj.outcome = "ok"
    /\ conj.states = Catalogue
    /\ conj.threshold = Fin(50000)
    /\ Len(conj.events) = 10
    /\ \A i, j \in 1..5 : i < j => Cardinality(EventsOfPair(i, j)) = 1

----------------------------------------------------------------------------
(* Properties of the element parser *)

\* the elements parseTLE returned last
Elements == tleParse.elements

\* the number x is below n
Below(x, n) == (IsFinite(x) /\ x.v < n) \/ x = NInf

\* C12: the orbit class parseTLE returns is one of the four, and it is the
\* one the ladder names for the perigee and eccentricity it returns: HEO
\* for a perigee below 2000 km with an eccentricity above 0.25, LEO for a
\* perigee below 2000 km otherwise, MEO for a perigee of at least 2000 and
\* below 35000 km, GEO in every other case.
C12_OrbitClassLadder ==
    tleParse.parsed =>
        LET low == Below(Elements.perigee, 2000)
            mid == ~low /\ Below(Elements.perigee, 35000)
            elliptic == IsFinite(Elements.eccentricity)
                          /\ Elements.eccentricity.v > 2500000
        IN /\ Elements.orbitType \in {"LEO", "MEO", "GEO", "HEO"}
           /\ Elements.orbitType = "HEO" <=> low /\ elliptic
           /\ Elements.orbitType = "LEO" <=> low /\ ~elliptic
           /\ Elements.orbitType = "MEO" <=> mid
           /\ Elements.orbitType = "GEO" <=> ~low /\ ~mid

\* a Molniya orbit: perigee 527 km, below the LEO threshold, and
\* eccentricity 0.74: HEO
C12_Witness ==
    /\ tleParse.parsed
    /\ tleParse.line2 = Line2Of(7400000, 20060)
    /\ Elements.perigee = Fin(527)
    /\ Elements.eccentricity = Fin(7400000)
    /\ Elements.orbitType = "HEO"

\* the columns from..to of a line hold a number: digits with at most a sign
\* and a point around them, after blanks are trimmed
HoldsNumber(line, from, to) ==
    LET t == trim(SubSeq(line, from, Min(to, Len(line))))
    IN /\ \E i \in 1..Len(t) : IsDigit(t[i])
       /\ \A i \in 1..Len(t) : IsDigit(t[i]) \/ t[i] \in {".", "+", "-"}

\* the lines conform to the fixed-column layout: 69 columns each, and a
\* number in the columns of the catalogue number, the epoch, the
\* inclination, the eccentricity and the mean motion
WellFormed ==
    /\ Len(tleParse.line1) = 69
    /\ Len(tleParse.line2) = 69
    /\ HoldsNumber(tleParse.line1, 3, 7)
    /\ HoldsNumber(tleParse.line1, 19, 20)
    /\ HoldsNumber(tleParse.line1, 21, 32)
    /\ HoldsNumber(tleParse.line2, 9, 16)
    /\ HoldsNumber(tleParse.line2, 27, 33)
    /\ HoldsNumber(tleParse.line2, 53, 63)

\* the numbers of the returned record
NumberFields ==
    { Elements.satelliteNumber, Elements.epochYear, Elements.epochDay,
      Elements.meanMotionDot, Elements.bstar, Elements.inclination, Elements.raan,
      Elements.eccentricity, Elements.argOfPerigee, Elements.meanAnomaly,
      Elements.meanMotion, Elements.revNumber, Elements.period,
      Elements.semiMajorAxis, Elements.apogee, Elements.perigee, Elements.velocity }

\* C13: parseTLE returns a record only for lines that conform to the
\* fixed-column layout, and a record it returns holds no NaN.
C13_MalformedIsRejected ==
    tleParse.parsed => WellFormed /\ NaN \notin NumberFields

\* C14: for a line 1 written with the two-digit epoch year yy, the epoch
\* year parseTLE returns is 1900 + yy from 57 on and 2000 + yy below 57.
C14_EpochYearPivot57 ==
    tleParse.parsed /\ tleParse.yy \in 0..99 =>
        Elements.epochYear
          = Fin(IF tleParse.yy >= 57 THEN 1900 + tleParse.yy ELSE 2000 + tleParse.yy)

\* the year 56, the last one of the 2000s
C14_Witness ==
    /\ tleParse.parsed
    /\ tleParse.line1 = Line1Of(56)
    /\ tleParse.yy = 56
    /\ Elements.epochYear = Fin(2056)

\* the returned eccentricity is in [0, 1) and the mean motion above zero
DataModelInvariant ==
    /\ tleParse.parsed
    /\ IsFinite(Elements.eccentricity)
    /\ Elements.eccentricity.v >= 0
    /\ Elements.eccentricity.v < 10000000
    /\ IsFinite(Elements.meanMotion)
    /\ Elements.meanMotion.v > 0

\* the derived quantities are finite, the apogee is not below the perigee
\* and the period is above zero
DerivedInOrder ==
    /\ IsFinite(Elements.apogee)
    /\ IsFinite(Elements.perigee)
    /\ IsFinite(Elements.period)
    /\ Elements.apogee.v >= Elements.perigee.v
    /\ Elements.period.v > 0

\* C15 as stated: under the data-model invariant apogee >= perigee >= 0
\* and period > 0.
C15_ApogeePerigeeNonNegative ==
    DataModelInvariant => DerivedInOrder /\ Elements.perigee.v >= 0

\* C15, amended: under the data-model invariant apogee >= perigee, the
\* perigee altitude is not below minus the reference radius, and
\* period > 0.
C15_ApogeePerigeeAboveCentre ==
    DataModelInvariant => DerivedInOrder /\ Elements.perigee.v >= 0 - EARTH_RADIUS_KM

\* eccentricity 0.8 at 2 revolutions a day: the perigee is 1055 km below
\* the reference radius
C15_Witness ==
    /\ DataModelInvariant
    /\ tleParse.line2 = Line2Of(8000000, 20000)
    /\ Elements.semiMajorAxis = Fin(26615)
    /\ Elements.apogee = Fin(41529)
    /\ Elements.perigee = Fin(-1055)
    /\ Elements.period = Fin(72000)

----------------------------------------------------------------------------
(* Properties of the visibility calculator *)

\* the samples of the loaded trajectory taken from aos to los
SamplesWithin(interval) ==
    { n \in 1..Len(access.trajectory) :
        /\ access.trajectory[n].t >= interval.aos
        /\ access.trajectory[n].t <= interval.los }

\* the samples at which the elevation has come above the mask: above it,
\* and the first of the window or after a sample not above it
Rises ==
    { n \in 1..Len(access.trajectory) :
        /\ access.trajectory[n].elevation > MinElevation
        /\ n > 1 => access.trajectory[n - 1].elevation <= MinElevation }

\* C16: in the intervals of one load each interval has aos <= los, and the
\* los of an interval is not later than the aos of the next one.
C16_IntervalsDisjointInOrder ==
    /\ \A k \in 1..Len(access.intervals) :
          access.intervals[k].aos <= access.intervals[k].los
    /\ \A k \in 1..(Len(access.intervals) - 1) :
          access.intervals[k].los <= access.intervals[k + 1].aos

\* two passes in one window: up for one sample, down, up for two
C16_Witness ==
    /\ access.outcome = "ok"
    /\ Len(access.intervals) = 2
    /\ access.intervals[1].aos = SampleStep
    /\ access.intervals[1].los = SampleStep
    /\ access.intervals[2].aos = 3 * SampleStep
    /\ access.intervals[2].los = 4 * SampleStep

\* C17: a successful load of a trajectory whose samples are all below the
\* mask has no interval; one whose elevation comes above the mask exactly
\* once has exactly one; the maximum elevation of an interval is that of the
\* sample at its recorded time, which lies in [aos, los], and no sample from
\* aos to los is higher.
C17_OneIntervalPerPassWithMaximum ==
    access.outcome = "ok" =>
        /\ (\A n \in 1..Len(access.trajectory) :
               access.trajectory[n].elevation < MinElevation)
             => access.intervals = <<>>
        /\ Cardinality(Rises) = 1 => Len(access.intervals) = 1
        /\ \A k \in 1..Len(access.intervals) :
              LET interval == access.intervals[k]
              IN /\ interval.max_el_time >= interval.aos
                 /\ interval.max_el_time <= interval.los
                 /\ \A n \in SamplesWithin(interval) :
                       /\ interval.max_elevation >= access.trajectory[n].elevation
                       /\ access.trajectory[n].t = interval.max_el_time
                            => access.trajectory[n].elevation = interval.max_elevation

\* one pass: below, 25 degrees, 40 degrees, below: one interval whose
\* maximum is the 40 degrees of the third sample
C17_Witness ==
    /\ access.outcome = "ok"
    /\ Cardinality(Rises) = 1
    /\ Len(access.intervals) = 1
    /\ access.intervals[1]
         = AccessInterval(2 * SampleStep, 3 * SampleStep, 40, 3 * SampleStep)
    /\ access.trajectory[1].elevation = 5
    /\ access.trajectory[4].elevation = 5

----------------------------------------------------------------------------
(* Properties of the application's conjunction polls *)

\* C18: the list held is the answer to the latest-issued poll answered so
\* far: the answer to an older poll never replaces that of a newer one.
C18_HeldListIsOfNewestPass == app.heldOf = app.newest

\* the notifications the last answer raised for the pair of the event
RaisedFor(c) ==
    { n \in 1..Len(app.raised) :
        /\ app.raised[n].noradId = c.sat1_norad
        /\ app.raised[n].distance = c.distance }

\* the event is new to the list and closer than 5 km
NewAndClose(c) == KeyOf(c) \notin app.prevKeys /\ Lt(c.distance, Fin(500))

\* C25: the answer to a poll raises a notification for a pair only when the
\* pair was absent from the list held before and is closer than 5 km,
\* 'critical' exactly when closer than 1 km and 'warning' otherwise, and
\* raises exactly one for each such pair, however often the updater is
\* invoked.
C25_OneNotificationPerAppearance ==
    /\ \A n \in 1..Len(app.raised) :
          \E k \in 1..Len(app.conjunctions) :
             /\ n \in RaisedFor(app.conjunctions[k])
             /\ NewAndClose(app.conjunctions[k])
             /\ app.raised[n].type = "conjunction"
             /\ app.raised[n].severity
                  = (IF Lt(app.conjunctions[k].distance, Fin(100)) THEN "critical"
                     ELSE "warning")
    /\ \A k \in 1..Len(app.conjunctions) :
          Cardinality(RaisedFor(app.conjunctions[k]))
            = (IF NewAndClose(app.conjunctions[k]) THEN 1 ELSE 0)

----------------------------------------------------------------------------
(* Properties of the watchlist hook *)

\* the id has been toggled an odd number of times since the mount
OddToggles(id) == watch.toggles[id] % 2 = 1

\* isWatched agrees with membership in the watchlist
IsWatchedAgrees == \A id \in WatchIds : isWatched(id) <=> Has(watch.watchlist, id)

\* the stored value is an array of exactly the ids of the watchlist
StoredIsWatchlist ==
    /\ watch.stored.present
    /\ JSONparse(watch.stored.text).ok
    /\ Range(JSONparse(watch.stored.text).value) = Range(watch.watchlist)

----------------------------------------------------------------------------
(* Properties of the useWorkerPositions hook *)

\* the 'propagate' messages the hook has posted
PropagatePosted == Len(OfType(hook.posted, "propagate"))

\* C21: no 'propagate' is posted before 'init_complete' was received; once
\* the tick effect has run with isReady set, one 'propagate' was posted at
\* once and one more for each firing of the interval, which is set while the
\* hook is mounted; after the unmount no further 'propagate' is posted and
\* no interval is left.
C21_TicksOnlyWhileReadyAndMounted ==
    /\ PropagatePosted > 0 => hook.initComplete
    /\ PropagatePosted = (IF hook.isReady /\ ~hook.effectPending THEN 1 ELSE 0) + hook.fired
    /\ (hook.mounted = "yes" /\ hook.isReady /\ ~hook.effectPending) => hook.interval
    /\ hook.mounted = "gone" =>
          /\ PropagatePosted = hook.postedAtUnmount
          /\ ~hook.interval

\* the hook was ready, posted one 'propagate' at once and one when the
\* interval fired, and was unmounted while a message of the worker was
\* still to be delivered
C21_Witness ==
    /\ hook.mounted = "gone"
    /\ hook.initComplete
    /\ hook.fired = 1
    /\ PropagatePosted = 2
    /\ hook.postedAtUnmount = 2
    /\ hook.fromWorker # <<>>

\* the events of the maneuver log
Logged == { hook.maneuvers[n] : n \in 1..Len(hook.maneuvers) }

\* event a goes before event b in the log: it is of a later tick, or of the
\* same tick and earlier in its batch
Before(a, b) == a.of > b.of \/ (a.of = b.of /\ a.n < b.n)

\* C22: the maneuver log never holds more than 50 events; it holds events
\* received, the events of a later batch in front of those of an earlier
\* one and each batch in its order; an event is discarded only when the log
\* is full, and every event discarded would go behind every event kept.
C22_LogKeepsNewestFifty ==
    /\ Len(hook.maneuvers) <= MaxManeuvers
    /\ Logged \subseteq hook.received
    /\ \A i, j \in 1..Len(hook.maneuvers) :
          i < j => Before(hook.maneuvers[i], hook.maneuvers[j])
    /\ hook.received # Logged => Len(hook.maneuvers) = MaxManeuvers
    /\ \A gone \in hook.received \ Logged : \A kept \in Logged : Before(kept, gone)

\* two batches of 30: the 30 events of the second tick are in front, the
\* first 20 of the first tick behind them, its last 10 are discarded
C22_Witness ==
    /\ Len(hook.maneuvers) = MaxManeuvers
    /\ hook.maneuvers[1] = [of |-> 2, n |-> 1]
    /\ hook.maneuvers[30] = [of |-> 2, n |-> 30]
    /\ hook.maneuvers[31] = [of |-> 1, n |-> 1]
    /\ hook.maneuvers[50] = [of |-> 1, n |-> 20]
    /\ [of |-> 1, n |-> 30] \in hook.received \ Logged

----------------------------------------------------------------------------
(* Properties of the application's pass polls *)

\* C23: every visibility notification was raised for a pass whose AOS was
\* between 10 and 15 minutes ahead at the time of the poll, and no two were
\* raised for the same key.
C23_NotifiedTenToFifteenMinutesOnce ==
    /\ \A n \in 1..Len(passPoll.raised) :
          /\ ~isNaN(passPoll.raised[n].timeToAos)
          /\ ~Lt(passPoll.raised[n].timeToAos, Fin(10))
          /\ Lte(passPoll.raised[n].timeToAos, Fin(15))
    /\ \A i, j \in 1..Len(passPoll.raised) :
          i # j => passPoll.raised[i].key # passPoll.raised[j].key

----------------------------------------------------------------------------
(* Properties of PositionWebSocket *)

\* the sockets in CONNECTING or OPEN state; each has the handlers of the
\* instance installed
Live == { s \in 1..Len(pws.sockets) : pws.sockets[s] \in {"connecting", "open"} }

\* C26: after disconnect(), until connect() is called again, no reconnect
\* timer is pending and no socket is created, whatever sockets close in the
\* meantime.
C26_NoAttemptAfterDisconnect ==
    pws.disconnected =>
        /\ ~pws.reconnectTimer
        /\ pws.pendingTimers = 0
        /\ Len(pws.sockets) = pws.socketsAtDisconnect
        /\ pws.ws = 0

\* disconnect() closed an open socket, whose 'close' event was handled
\* after it
C26_Witness ==
    /\ pws.disconnected
    /\ pws.last = [event |-> "closed", socket |-> 1]
    /\ pws.sockets = <<"closed">>
    /\ ~pws.reconnectTimer

\* C27: after the 'close' event of a socket that the peer or the network
\* closed while the instance is not disconnected, a reconnect timer is
\* pending, also when connect() followed an earlier disconnect().
C27_PeerCloseSchedulesReconnect ==
    (pws.last.event = "closedByPeer" /\ ~pws.disconnected) =>
        pws.reconnectTimer /\ pws.pendingTimers = 1

\* C28: at most one socket of the instance is in CONNECTING or OPEN state,
\* at most one reconnect timer is pending, and a push of the server invokes
\* onPosition at most once.
C28_OneLiveSocketOneTimer ==
    /\ Cardinality(Live) <= 1
    /\ pws.pendingTimers <= 1
    /\ pws.invoked <= 1

====
